---- MODULE Spec2Model ----
(***************************************************************************)
(* A model of the chatloop worker's BatchScheduler and PriorityScheduler    *)
(* (crates/worker/src/batching.rs), KVCache and ModelPartition              *)
(* (crates/worker/src/model.rs), InferenceEngine                            *)
(* (crates/worker/src/inference.rs) and SafeTensorBuffer                    *)
(* (crates/worker/src/tensor/safetensors.rs), and of the coordinator's      *)
(* Router (crates/coordinator/src/router.rs).                               *)
(*                                                                          *)
(* The schedulers are modelled at the grain of their shared-memory          *)
(* operations: every load, push, pop, fetch_add, fetch_sub and notification *)
(* is one step, so that any number of producers, the single consumer and    *)
(* the caller of shutdown interleave as threads do.  A router operation     *)
(* holds the worker-table lock for its whole effect on that table and is    *)
(* one step; register_worker and unregister_worker, which take two locks    *)
(* in turn, are also modelled as two steps, next to the health-check task.  *)
(* The cache, the partition, the engine and the tensor store are            *)
(* sequential: one step per call.  Each component has a specification of    *)
(* its own.                                                                 *)
(***************************************************************************)
EXTENDS Integers, Sequences, FiniteSets, TLC

\* ------------------------------------------------------------------ bounds
\* Number of submit calls, each with a request of its own.
NumRequests == 2
\* config.max_queue_size ranges over 1..MaxQueueSizeBound.
MaxQueueSizeBound == 2
\* config.max_batch_size ranges over 1..MaxBatchSizeBound.
MaxBatchSizeBound == 2

\* config.batching_window_ms, in clock ticks.
BatchingWindow == 3
\* The clock is followed up to this tick.
MaxTime == 8
\* The scheduling allowance of the batch-age bound, in clock ticks.
Epsilon == 1

\* KVCache::new(num_layers, num_heads, head_dim, max_len) is called with
\* these three sizes and with max_len in 1..MaxLenBound; resize takes a new
\* max_len in 0..MaxLenBound.
NumLayers == 2
NumHeads == 2
HeadDim == 1
MaxLenBound == 2
\* The key and value vectors appended start at an element in 1..NumValues.
NumValues == 2

\* A tensor shape has one or two dimensions, each in 1..MaxDim.
MaxDim == 2
\* The JSON header text a writer produces is 1..MaxHeaderLen bytes long.
MaxHeaderLen == 2

\* coordinator failure_threshold ranges over 1..MaxThresholdBound.
MaxThresholdBound == 2
\* mark_failed is followed up to this many calls past the threshold.
MaxExtraFailures == 1
\* update_queue_depth reports depths in 0..MaxDepth.
MaxDepth == 1
\* Number of tasks calling register_worker and unregister_worker at once.
NumCallers == 2

Requests == 1..NumRequests

\* The endpoints workers are registered under.
Endpoints == {"w1", "w2", "w3"}

\* AtomicUsize arithmetic wraps.  TLC's integers are 32 bits wide, so the
\* modulus 2^64 of a usize is represented by 2^30; the model only relies on
\* the modulus being larger than every queue size.
USIZE_MODULUS == 2^30

VARIABLES
    \* ---- BatchingConfig
    max_queue_size,     \* config.max_queue_size
    max_batch_size,     \* config.max_batch_size
    \* ---- BatchScheduler
    queue,              \* SegQueue<InferenceRequest>, FIFO of request ids
    queue_depth,        \* AtomicUsize
    shutdown,           \* AtomicBool
    permit,             \* the permit a tokio Notify stores for notify_one
    \* ---- one submit call per request
    spc,                \* position of submit(r): idle, push, incr, notify, ok, full
    overlapped,         \* history: some submit began while another was running
    preceded,           \* history: the pairs <<a, b>> such that submit(a) had
                        \* returned when submit(b) was called
    \* ---- the consumer (run_worker_loop calling next_batch)
    cpc,                \* position of the consumer inside next_batch
    batch,              \* the RequestBatch under construction
    batches,            \* history: the batches next_batch returned, in order
    result,             \* the value the last next_batch call returned
    now,                \* the monotonic clock Instant::now() reads, in ticks
    creation_time,      \* RequestBatch.creation_time of the batch of the call
    start,              \* next_batch's local `start` (line 186)
    wait_began,         \* the instant the last timeout(..) was started
    call,               \* history: the queue and the depth counter as the last
                        \* next_batch call found them, forgotten when a submit
                        \* call takes a step
    \* ---- the caller of shutdown()
    sdpc,
    \* ---- Router
    failure_threshold,  \* Router.failure_threshold
    workers,            \* HashMap<String, WorkerInfo>: endpoint -> record
    clients,            \* HashMap<String, WorkerClient>: its key set
    op,                 \* the last router call: name, endpoint, returned value
                        \* and (history) the health of the record it found
    strikes,            \* history: mark_failed calls on an endpoint since its
                        \* registration or last mark_healthy
    \* ---- KVCache
    kv_keys,            \* KVCache.keys, a buffer indexed from 0
    kv_values,          \* KVCache.values, a buffer indexed from 0
    seq_len,            \* KVCache.seq_len
    max_len,            \* KVCache.max_len
    kvop,               \* the last KVCache call: name, layer and returned value
    appended,           \* history: <<layer, position>> -> the vectors the
                        \* successful append at that layer and position took
    step_base,          \* history: seq_len when the current round of appends
                        \* (one per layer) began
    step_layers,        \* history: the layers appended to in the current round
    \* ---- ModelPartition and InferenceEngine
    tensor_buffer,      \* the tensor store: name -> dtype of the tensor the
                        \* name resolves to, or "missing"
    start_layer,        \* config.start_layer
    end_layer,          \* config.end_layer
    acc,                \* the last accessor call: name, layer, returned value
    fb,                 \* the last forward_batch call: batch, returned value
    worker_loop,        \* run_worker_loop: running, or ended by a panic
    \* ---- SafeTensorBuffer
    file,               \* the container file on disk
    debug_assertions,   \* the build: overflow checks on (debug) or off (release)
    store,              \* what SafeTensorBuffer::open returned, once called
    view,               \* the last get_tensor call: name and returned value
    \* ---- PriorityScheduler
    priority_queues,    \* the three SegQueues, by field name
    prio_shutdown,      \* PriorityScheduler.shutdown (AtomicBool)
    prio_permit,        \* the permit PriorityScheduler.notify stores
    prio_spc,           \* position of submit(r, priority): idle, notify, ok
    prio_class,         \* history: the queue request r was pushed to, or "-"
    prio_pushed,        \* history: the requests in the order of their pushes
    prio_cpc,           \* position of the consumer inside next_batch
    prio_max,           \* the argument max_batch_size of the call
    prio_qi,            \* the index of `for queue in &queues`
    prio_batch,         \* the RequestBatch under construction
    prio_drain,         \* history: the content of the queues when the call
                        \* (the recursive call, after a wait) began
    prio_batches,       \* history: the batches returned, in order
    prio_result,        \* the value the last call returned
    prio_sdpc,          \* position of the caller of shutdown()
    \* ---- Router: concurrent callers and the health-check task
    rpc,                \* per caller: its position inside register_worker or
                        \* unregister_worker, the endpoint of the call and
                        \* (history) whether an unregister_worker call ran
                        \* alongside a register_worker of its endpoint
    hpc,                \* position of the health-check task
    endpoints,          \* the task's `endpoints` still to be checked
    probe,              \* what perform_health_check returned for the first
    captured,           \* history: the endpoints the current tick captured
    marks,              \* history: mark_healthy/mark_failed calls of the
                        \* current tick, per endpoint
    gone,               \* history: endpoints whose unregister_worker returned
                        \* with no register_worker of them alongside or later
    late                \* history: the endpoints of `gone` the health-check
                        \* task has marked since

schedVars == <<max_queue_size, max_batch_size, queue, queue_depth, shutdown,
               permit, spc, overlapped, preceded, cpc, batch, batches, result,
               now, creation_time, start, wait_began, call, sdpc>>

routerVars == <<failure_threshold, workers, clients, op, strikes>>

cacheVars == <<kv_keys, kv_values, seq_len, max_len, kvop, appended,
               step_base, step_layers>>

engineVars == <<tensor_buffer, start_layer, end_layer, acc, fb, worker_loop>>

storeVars == <<file, debug_assertions, store, view>>

prioVars == <<priority_queues, prio_shutdown, prio_permit, prio_spc, prio_class,
              prio_pushed, prio_cpc, prio_max, prio_qi, prio_batch, prio_drain,
              prio_batches, prio_result, prio_sdpc>>

healthVars == <<rpc, hpc, endpoints, probe, captured, marks, gone, late>>

\* What the operations of each component leave alone.  The tasks of the
\* concurrent router work on the router's tables: nonHealthVars is what they
\* leave alone.
nonSchedVars == <<routerVars, cacheVars, engineVars, storeVars, prioVars, healthVars>>
nonRouterVars == <<schedVars, cacheVars, engineVars, storeVars, prioVars, healthVars>>
nonCacheVars == <<schedVars, routerVars, engineVars, storeVars, prioVars, healthVars>>
nonEngineVars == <<schedVars, routerVars, cacheVars, storeVars, prioVars, healthVars>>
nonStoreVars == <<schedVars, routerVars, cacheVars, engineVars, prioVars, healthVars>>
nonPrioVars == <<schedVars, routerVars, cacheVars, engineVars, storeVars, healthVars>>

nonHealthVars == <<schedVars, cacheVars, engineVars, storeVars, prioVars>>

vars == <<schedVars, routerVars, cacheVars, engineVars, storeVars, prioVars,
          healthVars>>

\* ------------------------------------------------------------ BatchScheduler

\* What is recorded of a next_batch call before the first call, and once a
\* submit call has taken a step since the call began.
NoCall == [queue |-> <<>>, depth |-> 0]

\* BatchScheduler::new, lines 115-123: empty queue, depth 0, flag clear, no
\* permit; no submit, next_batch or shutdown call has begun.
SchedInit ==
    /\ max_queue_size \in 1..MaxQueueSizeBound
    /\ max_batch_size \in 1..MaxBatchSizeBound
    /\ queue = <<>>
    /\ queue_depth = 0
    /\ shutdown = FALSE
    /\ permit = FALSE
    /\ spc = [r \in Requests |-> "idle"]
    /\ overlapped = FALSE
    /\ preceded = {}
    /\ cpc = "idle"
    /\ batch = <<>>
    /\ batches = <<>>
    /\ result = "-"
    /\ now = 0
    /\ creation_time = 0
    /\ start = 0
    /\ wait_began = 0
    /\ call = NoCall
    /\ sdpc = "idle"

\* fetch_add(1) on an AtomicUsize wraps around.
FetchAdd(d) == (d + 1) % USIZE_MODULUS

\* A decrement that takes two off the counter.
FetchSub_Twice(d) == (d - 2) % USIZE_MODULUS

\* fetch_sub(1) on an AtomicUsize wraps around.
FetchSub(d) == (d - 1) % USIZE_MODULUS

\* The consumer is suspended in notified().
Waiting == cpc \in {"waiting_first", "waiting_more"}

\* Where a woken waiter resumes.
Resume(pc) == IF pc = "waiting_first" THEN "pop_second" ELSE "collect"

\* Some submit call is between its depth check and its return.
InSubmit(r) == spc[r] \in {"push", "incr", "notify"}

\* The requests whose submit call has returned.
Returned == {a \in Requests : spc[a] \in {"ok", "full"}}

\* A backpressure check that lets one request too many in.
QueueIsFull_OffByOne == queue_depth > max_queue_size

\* submit, line 130: the backpressure check.
QueueIsFull == queue_depth >= max_queue_size

SubmitCheck(r) ==
    /\ spc[r] = "idle"
    /\ spc' = [spc EXCEPT ![r] = IF QueueIsFull THEN "full" ELSE "push"]
    /\ overlapped' = (overlapped \/ \E q \in Requests \ {r} : InSubmit(q))
    /\ preceded' = preceded \cup {<<a, r>> : a \in Returned}
    /\ call' = NoCall
    /\ UNCHANGED <<max_queue_size, max_batch_size, queue, queue_depth, shutdown,
                   permit, cpc, batch, batches, result, sdpc,
                   now, creation_time, start, wait_began, nonSchedVars>>

\* A submit that increments and notifies and never pushed its request.
SubmitPush_Lost(r) ==
    /\ spc[r] = "push"
    /\ spc' = [spc EXCEPT ![r] = "incr"]
    /\ call' = NoCall
    /\ UNCHANGED <<max_queue_size, max_batch_size, queue, queue_depth, shutdown,
                   permit, overlapped, cpc, batch, batches, result, sdpc,
                   preceded, now, creation_time, start, wait_began, nonSchedVars>>

\* submit, line 136: queue.push(request).
SubmitPush(r) ==
    /\ spc[r] = "push"
    /\ queue' = Append(queue, r)
    /\ spc' = [spc EXCEPT ![r] = "incr"]
    /\ call' = NoCall
    /\ UNCHANGED <<max_queue_size, max_batch_size, queue_depth, shutdown, permit,
                   overlapped, cpc, batch, batches, result, sdpc,
                   preceded, now, creation_time, start, wait_began, nonSchedVars>>

\* submit, line 137: queue_depth.fetch_add(1).
SubmitIncr(r) ==
    /\ spc[r] = "incr"
    /\ queue_depth' = FetchAdd(queue_depth)
    /\ spc' = [spc EXCEPT ![r] = "notify"]
    /\ call' = NoCall
    /\ UNCHANGED <<max_queue_size, max_batch_size, queue, shutdown, permit,
                   overlapped, cpc, batch, batches, result, sdpc,
                   preceded, now, creation_time, start, wait_began, nonSchedVars>>

\* submit, line 138: notify.notify_one() wakes the waiter or stores a permit;
\* the call then returns Ok.
SubmitNotify(r) ==
    /\ spc[r] = "notify"
    /\ IF Waiting
         THEN cpc' = Resume(cpc) /\ permit' = permit
         ELSE cpc' = cpc /\ permit' = TRUE
    /\ spc' = [spc EXCEPT ![r] = "ok"]
    /\ call' = NoCall
    /\ UNCHANGED <<max_queue_size, max_batch_size, queue, queue_depth, shutdown,
                   overlapped, batch, batches, result, sdpc,
                   preceded, now, creation_time, start, wait_began, nonSchedVars>>

\* A pop that reads the head of the queue and leaves it there.
PopInto_Peek ==
    /\ queue' = queue
    /\ batch' = Append(batch, Head(queue))

\* A pop that takes the request pushed last.
PopInto_Last ==
    /\ queue' = SubSeq(queue, 1, Len(queue) - 1)
    /\ batch' = Append(batch, queue[Len(queue)])

\* The request at the head of the queue leaves it and joins the batch
\* (queue.pop() returning Some, then batch.add); the fetch_sub follows.
PopInto ==
    /\ queue' = Tail(queue)
    /\ batch' = Append(batch, Head(queue))

\* next_batch returns Ok(Some(batch)), line 209: the batch moves to the caller.
ReturnBatch ==
    /\ batches' = Append(batches, batch)
    /\ batch' = <<>>
    /\ result' = "Some"
    /\ cpc' = "idle"

\* next_batch, lines 154-161: a new call creates its empty batch, whose
\* creation_time is Instant::now() (RequestBatch::new, line 64), and loads
\* the shutdown flag; a set flag makes it return Ok(None).
CheckShutdown ==
    /\ cpc = "idle"
    /\ batch' = <<>>
    /\ IF shutdown
         THEN cpc' = "idle" /\ result' = "None"
         ELSE cpc' = "pop_first" /\ result' = "-"
    /\ call' = [queue |-> queue, depth |-> queue_depth]
    /\ creation_time' = now
    /\ UNCHANGED <<max_queue_size, max_batch_size, queue, queue_depth, shutdown,
                   permit, spc, overlapped, batches, sdpc,
                   preceded, now, start, wait_began, nonSchedVars>>

\* next_batch, line 164: the first queue.pop().
PopFirst ==
    /\ cpc = "pop_first"
    /\ IF queue # <<>>
         THEN PopInto /\ cpc' = "fetch_sub"
         ELSE UNCHANGED <<queue, batch>> /\ cpc' = "wait_first"
    /\ UNCHANGED <<max_queue_size, max_batch_size, queue_depth, shutdown, permit,
                   spc, overlapped, batches, result, sdpc,
                   preceded, call, now, creation_time, start, wait_began, nonSchedVars>>

\* next_batch, lines 165, 177 and 189: queue_depth.fetch_sub(1) after a pop;
\* each of the three is followed by the collection loop's condition, the
\* first two by `let start = Instant::now()` (line 186) before it.
FetchSubDepth ==
    /\ cpc = "fetch_sub"
    /\ queue_depth' = FetchSub(queue_depth)
    /\ cpc' = "collect"
    /\ start' = IF Len(batch) = 1 THEN now ELSE start
    /\ UNCHANGED <<max_queue_size, max_batch_size, queue, shutdown, permit, spc,
                   overlapped, batch, batches, result, sdpc,
                   preceded, call, now, creation_time, wait_began, nonSchedVars>>

\* next_batch, line 171: the first poll of timeout(window, notified()) takes a
\* stored permit, or else suspends the consumer.
WaitFirst ==
    /\ cpc = "wait_first"
    /\ IF permit
         THEN permit' = FALSE /\ cpc' = "pop_second"
         ELSE permit' = permit /\ cpc' = "waiting_first"
    /\ wait_began' = now
    /\ UNCHANGED <<max_queue_size, max_batch_size, queue, queue_depth, shutdown,
                   spc, overlapped, batch, batches, result, sdpc,
                   preceded, call, now, creation_time, start, nonSchedVars>>

\* next_batch, lines 171-173: the window elapses while the consumer waits for
\* the first request; map_err and ? make the call return Err(Timeout).
TimeoutFirst ==
    /\ cpc = "waiting_first"
    /\ cpc' = "idle"
    /\ result' = "Timeout"
    /\ UNCHANGED <<max_queue_size, max_batch_size, queue, queue_depth, shutdown,
                   permit, spc, overlapped, batch, batches, sdpc,
                   preceded, call, now, creation_time, start, wait_began, nonSchedVars>>

\* next_batch, lines 176-182: after a notification, pop or return Ok(None).
PopSecond ==
    /\ cpc = "pop_second"
    /\ IF queue # <<>>
         THEN PopInto /\ cpc' = "fetch_sub" /\ result' = result
         ELSE UNCHANGED <<queue, batch>> /\ cpc' = "idle" /\ result' = "None"
    /\ UNCHANGED <<max_queue_size, max_batch_size, queue_depth, shutdown, permit,
                   spc, overlapped, batches, sdpc,
                   preceded, call, now, creation_time, start, wait_began, nonSchedVars>>

\* A size test that admits one request beyond max_batch_size.
BatchHasRoom_OffByOne == Len(batch) <= max_batch_size

\* next_batch, line 187: batch.len() < self.config.max_batch_size.
BatchHasRoom == Len(batch) < max_batch_size

\* next_batch, line 187: the collection loop's condition.  Whether
\* start.elapsed() < batching_window still holds is the clock's choice.
Collect ==
    /\ cpc = "collect"
    /\ \E elapsed \in BOOLEAN :
         IF BatchHasRoom /\ ~elapsed
           THEN cpc' = "pop_more" /\ UNCHANGED <<batch, batches, result>>
           ELSE ReturnBatch
    /\ UNCHANGED <<max_queue_size, max_batch_size, queue, queue_depth, shutdown,
                   permit, spc, overlapped, sdpc,
                   preceded, call, now, creation_time, start, wait_began, nonSchedVars>>

\* next_batch, lines 188-196: pop inside the collection loop; on an empty queue
\* the loop breaks when no time remains and waits otherwise.
PopMore ==
    /\ cpc = "pop_more"
    /\ IF queue # <<>>
         THEN PopInto /\ cpc' = "fetch_sub" /\ UNCHANGED <<batches, result>>
         ELSE /\ UNCHANGED queue
              /\ \E remaining_is_zero \in BOOLEAN :
                   IF remaining_is_zero
                     THEN ReturnBatch
                     ELSE /\ cpc' = "wait_more"
                          /\ UNCHANGED <<batch, batches, result>>
    /\ UNCHANGED <<max_queue_size, max_batch_size, queue_depth, shutdown, permit,
                   spc, overlapped, sdpc,
                   preceded, call, now, creation_time, start, wait_began, nonSchedVars>>

\* next_batch, line 198: the first poll of timeout(remaining, notified()).
WaitMore ==
    /\ cpc = "wait_more"
    /\ IF permit
         THEN permit' = FALSE /\ cpc' = "collect"
         ELSE permit' = permit /\ cpc' = "waiting_more"
    /\ wait_began' = now
    /\ UNCHANGED <<max_queue_size, max_batch_size, queue, queue_depth, shutdown,
                   spc, overlapped, batch, batches, result, sdpc,
                   preceded, call, now, creation_time, start, nonSchedVars>>

\* next_batch, line 198: the remaining window elapses; the result is dropped.
TimeoutMore ==
    /\ cpc = "waiting_more"
    /\ cpc' = "collect"
    /\ UNCHANGED <<max_queue_size, max_batch_size, queue, queue_depth, shutdown,
                   permit, spc, overlapped, batch, batches, result, sdpc,
                   preceded, call, now, creation_time, start, wait_began, nonSchedVars>>

\* shutdown, line 225: shutdown.store(true).
ShutdownStore ==
    /\ sdpc = "idle"
    /\ shutdown' = TRUE
    /\ sdpc' = "notify"
    /\ UNCHANGED <<max_queue_size, max_batch_size, queue, queue_depth, permit,
                   spc, overlapped, cpc, batch, batches, result,
                   preceded, call, now, creation_time, start, wait_began, nonSchedVars>>

\* shutdown, line 226: notify.notify_waiters() wakes a suspended consumer and
\* stores no permit.
ShutdownNotify ==
    /\ sdpc = "notify"
    /\ sdpc' = "done"
    /\ cpc' = IF Waiting THEN Resume(cpc) ELSE cpc
    /\ UNCHANGED <<max_queue_size, max_batch_size, queue, queue_depth, shutdown,
                   permit, spc, overlapped, batch, batches, result,
                   preceded, call, now, creation_time, start, wait_began, nonSchedVars>>

Submit(r) ==
    \/ SubmitCheck(r)
    \/ SubmitPush(r)
    \/ SubmitIncr(r)
    \/ SubmitNotify(r)

NextBatch ==
    \/ CheckShutdown
    \/ PopFirst
    \/ FetchSubDepth
    \/ WaitFirst
    \/ TimeoutFirst
    \/ PopSecond
    \/ Collect
    \/ PopMore
    \/ WaitMore
    \/ TimeoutMore

Shutdown ==
    \/ ShutdownStore
    \/ ShutdownNotify

SchedNext ==
    \/ \E r \in Requests : Submit(r)
    \/ NextBatch
    \/ Shutdown

\* ---------------------------------------------------- BatchScheduler, timed
\* In Spec and FairSpec the clock is not followed: now stays 0 and what a
\* reading of the clock decides (the loop condition, the remaining time, the
\* expiry of a timeout) is an arbitrary choice.  TimedSpec lets the clock
\* tick and holds each of these decisions to the clock: a step of next_batch
\* takes no time, and time passes while the consumer is suspended in a
\* timeout or between two calls.

\* start.elapsed() >= batching_window (lines 187 and 193).
WindowElapsed == now - start >= BatchingWindow

\* The duration of the timeout the consumer is suspended in: the batching
\* window at line 171; at line 198 the `remaining` of line 193,
\* batching_window.saturating_sub(start.elapsed()), read when the timeout
\* was started.
WaitDuration ==
    IF cpc = "waiting_first" THEN BatchingWindow
    ELSE IF wait_began - start >= BatchingWindow THEN 0
    ELSE BatchingWindow - (wait_began - start)

\* The timeout the consumer is suspended in has run out.
TimeoutDue == Waiting /\ now - wait_began >= WaitDuration

\* Line 171: the timeout fires when its duration has passed.
TimedTimeoutFirst == TimeoutFirst /\ TimeoutDue

\* Line 198: the timeout fires when its duration has passed.
TimedTimeoutMore == TimeoutMore /\ TimeoutDue

\* Line 187: the loop goes on exactly while the batch has room and the window
\* counted from `start` has not elapsed.
TimedCollect ==
    Collect /\ (cpc' = "pop_more" <=> (BatchHasRoom /\ ~WindowElapsed))

\* Lines 192-196: on an empty queue the loop breaks exactly when no time
\* remains.
TimedPopMore ==
    PopMore /\ (queue = <<>> => (cpc' = "idle" <=> WindowElapsed))

\* The clock advances by one tick while the consumer is suspended in a
\* timeout that has not run out, or is between two next_batch calls.
Tick ==
    /\ cpc = "idle" \/ Waiting
    /\ ~TimeoutDue
    /\ now < MaxTime
    /\ now' = now + 1
    /\ UNCHANGED <<max_queue_size, max_batch_size, queue, queue_depth, shutdown,
                   permit, spc, overlapped, preceded, cpc, batch, batches,
                   result, creation_time, start, wait_began, call, sdpc,
                   nonSchedVars>>

TimedNextBatch ==
    \/ CheckShutdown
    \/ PopFirst
    \/ FetchSubDepth
    \/ WaitFirst
    \/ TimedTimeoutFirst
    \/ PopSecond
    \/ TimedCollect
    \/ TimedPopMore
    \/ WaitMore
    \/ TimedTimeoutMore

TimedNext ==
    \/ \E r \in Requests : Submit(r)
    \/ TimedNextBatch
    \/ Tick

\* -------------------------------------------------------------------- Router

\* Router::new, lines 86-93: empty tables.
RouterInit ==
    /\ failure_threshold \in 1..MaxThresholdBound
    /\ workers = [e \in {} |-> 0]
    /\ clients = {}
    /\ op = [name |-> "new", endpoint |-> "-", result |-> "-", was |-> "-"]
    /\ strikes = [e \in Endpoints |-> 0]

\* WorkerInfo::new, lines 40-50 (the timestamp, worker id and layer group
\* play no part in routing).
NewWorkerInfo == [queue_depth |-> 0, healthy |-> TRUE, failure_count |-> 0]

\* HashMap::insert and HashMap::remove on a table keyed by endpoint.
Insert(table, e, w) ==
    [x \in DOMAIN table \cup {e} |-> IF x = e THEN w ELSE table[x]]
Remove(table, e) == [x \in DOMAIN table \ {e} |-> table[x]]

\* The float standing for f64::INFINITY: above every depth a worker reports.
INFINITY == MaxDepth + 2

\* WorkerInfo::load_score, lines 53-61.  The cast of queue_depth to f64 is
\* exact for every depth below 2^53, hence for every integer of the model.
load_score(w) == IF ~w.healthy THEN INFINITY ELSE w.queue_depth

\* A filter that lets every worker through.
Eligible_Everyone(table) == DOMAIN table

\* select_worker, line 150: .filter(|w| w.healthy).
Eligible(table) == {e \in DOMAIN table : table[e].healthy}

\* The orders in which HashMap::values() may yield the records of S.
Orders(S) ==
    {s \in [1..Cardinality(S) -> S] :
        \A i, j \in 1..Cardinality(S) : s[i] = s[j] => i = j}

\* A min_by that keeps the later of two equal or greater elements.
RECURSIVE MinBy_Max(_, _, _)
MinBy_Max(table, seq, best) ==
    IF seq = <<>> THEN best
    ELSE MinBy_Max(table, Tail(seq),
                   IF load_score(table[best]) < load_score(table[Head(seq)])
                     THEN Head(seq) ELSE best)

\* Iterator::min_by, lines 151-155: a fold that replaces the running minimum
\* only by a strictly smaller score, so the first minimum in iteration order
\* wins.
RECURSIVE MinBy(_, _, _)
MinBy(table, seq, best) ==
    IF seq = <<>> THEN best
    ELSE MinBy(table, Tail(seq),
               IF load_score(table[best]) > load_score(table[Head(seq)])
                 THEN Head(seq) ELSE best)

\* select_worker, lines 140-169, for one iteration order of the table.
SelectWorkerResult(table, order) ==
    LET candidates == SelectSeq(order, LAMBDA e : e \in Eligible(table))
    IN  IF DOMAIN table = {} THEN "WorkerUnavailable"
        ELSE IF candidates = <<>> THEN "WorkerUnavailable"
        ELSE MinBy(table, Tail(candidates), Head(candidates))

\* What a call finds under endpoint e (recorded in op.was).
Health(table, e) ==
    IF e \notin DOMAIN table THEN "absent"
    ELSE IF table[e].healthy THEN "healthy" ELSE "unhealthy"

\* register_worker, lines 96-118: WorkerClient::connect always succeeds
\* (worker_client.rs lines 18-23); the record and the client are stored.  The
\* client table has a lock of its own and is written right after the worker
\* table; no operation of this specification reads it in between.
RegisterWorker(e) ==
    /\ workers' = Insert(workers, e, NewWorkerInfo)
    /\ clients' = clients \cup {e}
    /\ op' = [name |-> "register_worker", endpoint |-> e, result |-> "Ok",
              was |-> "-"]
    /\ strikes' = [strikes EXCEPT ![e] = 0]
    /\ UNCHANGED <<failure_threshold, nonRouterVars>>

\* unregister_worker, lines 121-135.
UnregisterWorker(e) ==
    /\ workers' = Remove(workers, e)
    /\ clients' = clients \ {e}
    /\ op' = [name |-> "unregister_worker", endpoint |-> e, result |-> "Ok",
              was |-> "-"]
    /\ strikes' = [strikes EXCEPT ![e] = 0]
    /\ UNCHANGED <<failure_threshold, nonRouterVars>>

\* select_worker, lines 140-169, under the read lock.
SelectWorker ==
    /\ \E order \in Orders(DOMAIN workers) :
          op' = [name |-> "select_worker", endpoint |-> "-",
                 result |-> SelectWorkerResult(workers, order), was |-> "-"]
    /\ UNCHANGED <<failure_threshold, workers, clients, strikes, nonRouterVars>>

\* update_queue_depth, lines 178-184.
UpdateQueueDepth(e, depth) ==
    /\ workers' = IF e \in DOMAIN workers
                    THEN [workers EXCEPT ![e].queue_depth = depth]
                    ELSE workers
    /\ op' = [name |-> "update_queue_depth", endpoint |-> e, result |-> "-",
              was |-> "-"]
    /\ UNCHANGED <<failure_threshold, clients, strikes, nonRouterVars>>

\* A demotion test that waits for one failure more than the threshold.
ReachedThreshold_OffByOne(count) == count > failure_threshold

\* mark_failed, line 192.
ReachedThreshold(count) == count >= failure_threshold

\* A mark_failed that counts the failure and never demotes.
MarkFailedRecord_NoDemotion(w) ==
    [w EXCEPT !.failure_count = w.failure_count + 1]

\* mark_failed, lines 190-198, on the record found.
MarkFailedRecord(w) ==
    LET count == w.failure_count + 1
    IN  [w EXCEPT !.failure_count = count,
                  !.healthy = IF ReachedThreshold(count) THEN FALSE ELSE w.healthy]

\* mark_failed, lines 187-200.  failure_count is a u32; the model follows it
\* up to MaxExtraFailures past the threshold.
MarkFailed(e) ==
    /\ e \in DOMAIN workers =>
          workers[e].failure_count < failure_threshold + MaxExtraFailures
    /\ workers' = IF e \in DOMAIN workers
                    THEN [workers EXCEPT ![e] = MarkFailedRecord(workers[e])]
                    ELSE workers
    /\ strikes' = IF e \in DOMAIN workers
                    THEN [strikes EXCEPT ![e] = strikes[e] + 1]
                    ELSE strikes
    /\ op' = [name |-> "mark_failed", endpoint |-> e, result |-> "-",
              was |-> Health(workers, e)]
    /\ UNCHANGED <<failure_threshold, clients, nonRouterVars>>

\* A mark_healthy that sets the flag and keeps the counter.
MarkHealthyRecord_KeepCount(w) == [w EXCEPT !.healthy = TRUE]

\* mark_healthy, lines 206-207, on the record found.
MarkHealthyRecord(w) == [w EXCEPT !.healthy = TRUE, !.failure_count = 0]

\* mark_healthy, lines 203-211.
MarkHealthy(e) ==
    /\ workers' = IF e \in DOMAIN workers
                    THEN [workers EXCEPT ![e] = MarkHealthyRecord(workers[e])]
                    ELSE workers
    /\ strikes' = [strikes EXCEPT ![e] = 0]
    /\ op' = [name |-> "mark_healthy", endpoint |-> e, result |-> "-",
              was |-> Health(workers, e)]
    /\ UNCHANGED <<failure_threshold, clients, nonRouterVars>>

RouterNext ==
    \/ \E e \in Endpoints : RegisterWorker(e)
    \/ \E e \in Endpoints : UnregisterWorker(e)
    \/ SelectWorker
    \/ \E e \in Endpoints : \E depth \in 0..MaxDepth : UpdateQueueDepth(e, depth)
    \/ \E e \in Endpoints : MarkFailed(e)
    \/ \E e \in Endpoints : MarkHealthy(e)

\* ------------------------------------- Router: concurrent calls, health task
\* register_worker and unregister_worker take the write lock of the worker
\* table and then, after releasing it, the write lock of the client table:
\* each call is two steps.  The task of start_health_checks takes a lock per
\* call it makes.  WorkerClient::connect (worker_client.rs lines 18-23) and
\* the info! lines touch nothing shared and belong to the step next to them.

Callers == 1..NumCallers

\* The endpoints the concurrent callers register and unregister.
Pool == {"w1", "w2"}

IdleCall == [pc |-> "idle", endpoint |-> "-", raced |-> FALSE]

\* No call in progress, the health-check task before its first tick.
HealthInit ==
    /\ rpc = [c \in Callers |-> IdleCall]
    /\ hpc = "tick"
    /\ endpoints = <<>>
    /\ probe = "-"
    /\ captured = {}
    /\ marks = [e \in Pool |-> 0]
    /\ gone = {}
    /\ late = {}

\* Some register_worker(e) call is between its two locks.
Registering(e) ==
    \E c \in Callers : rpc[c].pc = "reg_clients" /\ rpc[c].endpoint = e

\* register_worker, lines 96-109: connect, then workers.insert under the
\* write lock of the worker table.
RegWorkers(c, e) ==
    /\ rpc[c].pc = "idle"
    /\ workers' = Insert(workers, e, NewWorkerInfo)
    /\ strikes' = [strikes EXCEPT ![e] = 0]
    /\ rpc' = [x \in Callers |->
                 IF x = c
                   THEN [pc |-> "reg_clients", endpoint |-> e, raced |-> FALSE]
                 ELSE IF rpc[x].pc = "unreg_clients" /\ rpc[x].endpoint = e
                   THEN [rpc[x] EXCEPT !.raced = TRUE]
                 ELSE rpc[x]]
    /\ gone' = gone \ {e}
    /\ late' = late \ {e}
    /\ UNCHANGED <<failure_threshold, clients, op, hpc, endpoints, probe,
                   captured, marks, nonHealthVars>>

\* register_worker, lines 111-118: clients.insert under the write lock of
\* the client table; the call returns Ok.
RegClients(c) ==
    /\ rpc[c].pc = "reg_clients"
    /\ clients' = clients \cup {rpc[c].endpoint}
    /\ rpc' = [rpc EXCEPT ![c] = IdleCall]
    /\ UNCHANGED <<failure_threshold, workers, op, strikes, hpc, endpoints,
                   probe, captured, marks, gone, late, nonHealthVars>>

\* unregister_worker, lines 121-125: workers.remove.
UnregWorkers(c, e) ==
    /\ rpc[c].pc = "idle"
    /\ workers' = Remove(workers, e)
    /\ strikes' = [strikes EXCEPT ![e] = 0]
    /\ rpc' = [rpc EXCEPT ![c] = [pc |-> "unreg_clients", endpoint |-> e,
                                 raced |-> Registering(e)]]
    /\ UNCHANGED <<failure_threshold, clients, op, hpc, endpoints, probe,
                   captured, marks, gone, late, nonHealthVars>>

\* unregister_worker, lines 127-135: clients.remove; the call returns Ok.
UnregClients(c) ==
    /\ rpc[c].pc = "unreg_clients"
    /\ clients' = clients \ {rpc[c].endpoint}
    /\ rpc' = [rpc EXCEPT ![c] = IdleCall]
    /\ gone' = IF rpc[c].raced THEN gone ELSE gone \cup {rpc[c].endpoint}
    /\ UNCHANGED <<failure_threshold, workers, op, strikes, hpc, endpoints,
                   probe, captured, marks, late, nonHealthVars>>

\* start_health_checks, lines 231-235: the interval ticks and
\* get_worker_endpoints collects the keys of the worker table, in the order
\* the table yields them.
HealthTick ==
    /\ hpc = "tick"
    /\ \E order \in Orders(DOMAIN workers) : endpoints' = order
    /\ hpc' = IF DOMAIN workers = {} THEN "tick" ELSE "check"
    /\ probe' = "-"
    /\ captured' = DOMAIN workers
    /\ marks' = [e \in Pool |-> 0]
    /\ UNCHANGED <<routerVars, rpc, gone, late, nonHealthVars>>

\* WorkerClient::health_check, worker_client.rs lines 26-29.
health_check == "Ok(true)"

\* perform_health_check, lines 256-265: get_client under the read lock of
\* the client table; no client is an Err, else the result of the client's
\* health_check.
perform_health_check(endpoint) ==
    IF endpoint \notin clients THEN "Err(Connection: No client for endpoint)"
    ELSE health_check

HealthCheck ==
    /\ hpc = "check"
    /\ probe' = perform_health_check(Head(endpoints))
    /\ hpc' = "mark"
    /\ UNCHANGED <<routerVars, rpc, endpoints, captured, marks, gone, late,
                   nonHealthVars>>

\* A match that marks the worker healthy whatever the probe returned.
Transition_AlwaysHealthy(outcome) == "mark_healthy"

\* start_health_checks, lines 238-249: the match on the outcome.
Transition(outcome) ==
    IF outcome = "Ok(true)" THEN "mark_healthy" ELSE "mark_failed"

\* A mark that makes a record for an endpoint it does not find.
Marked_Upsert(table, e, transition) ==
    Insert(table, e,
           IF transition = "mark_healthy" THEN NewWorkerInfo
           ELSE MarkFailedRecord(NewWorkerInfo))

\* mark_healthy (lines 203-211) or mark_failed (lines 187-200) on a table:
\* workers.get_mut(endpoint) finds the record, or nothing is done.
Marked(table, e, transition) ==
    IF e \notin DOMAIN table THEN table
    ELSE IF transition = "mark_healthy"
      THEN [table EXCEPT ![e] = MarkHealthyRecord(table[e])]
    ELSE [table EXCEPT ![e] = MarkFailedRecord(table[e])]

\* start_health_checks, lines 238-250: the mark_healthy or mark_failed call
\* for the endpoint just checked, under the write lock of the worker table;
\* the loop goes to the next endpoint, or to the next tick.  failure_count
\* is followed up to MaxExtraFailures past the threshold.
HealthMark ==
    /\ hpc = "mark"
    /\ LET e == Head(endpoints)
           transition == Transition(probe)
       IN  /\ (transition = "mark_failed" /\ e \in DOMAIN workers) =>
                  workers[e].failure_count < failure_threshold + MaxExtraFailures
           /\ workers' = Marked(workers, e, transition)
           /\ strikes' = IF transition = "mark_healthy"
                           THEN [strikes EXCEPT ![e] = 0]
                         ELSE IF e \in DOMAIN workers
                           THEN [strikes EXCEPT ![e] = strikes[e] + 1]
                         ELSE strikes
           /\ marks' = [marks EXCEPT ![e] = marks[e] + 1]
           /\ late' = late \cup ({e} \cap gone)
    /\ endpoints' = Tail(endpoints)
    /\ hpc' = IF Tail(endpoints) = <<>> THEN "tick" ELSE "check"
    /\ UNCHANGED <<failure_threshold, clients, op, rpc, probe, captured, gone,
                   nonHealthVars>>

\* The router with concurrent callers of register_worker and
\* unregister_worker, the health-check task, and callers of select_worker
\* and update_queue_depth.
HealthNext ==
    \/ \E c \in Callers : \E e \in Pool : RegWorkers(c, e)
    \/ \E c \in Callers : RegClients(c)
    \/ \E c \in Callers : \E e \in Pool : UnregWorkers(c, e)
    \/ \E c \in Callers : UnregClients(c)
    \/ HealthTick
    \/ HealthCheck
    \/ HealthMark
    \/ SelectWorker
    \/ \E e \in Pool : \E depth \in 0..MaxDepth : UpdateQueueDepth(e, depth)

\* ------------------------------------------------------------------- KVCache

\* The layers of the cache, and the length of one appended vector
\* (test_kv_cache, lines 434-435: num_heads * head_dim elements).
Layers == 0..(NumLayers - 1)
VecLen == NumHeads * HeadDim

\* vec![0.0; n] as a buffer indexed from 0.
Zeros(n) == [i \in 0..(n - 1) |-> 0]

\* total_size, lines 342 and 415.
TotalSize(len) == NumLayers * NumHeads * len * HeadDim

\* The vectors a caller passes to append: VecLen distinct elements.
Vector(x) == [i \in 1..VecLen |-> x + (i - 1)]

\* KVCache::new, lines 341-353.
CacheInit ==
    /\ max_len \in 1..MaxLenBound
    /\ kv_keys = Zeros(TotalSize(max_len))
    /\ kv_values = Zeros(TotalSize(max_len))
    /\ seq_len = 0
    /\ kvop = [name |-> "new", layer |-> 0, result |-> "-"]
    /\ appended = [c \in {} |-> 0]
    /\ step_base = 0
    /\ step_layers = {}

\* The offset of lines 365-366, 388 and 400.
Offset(layer_idx, pos) ==
    layer_idx * NumHeads * max_len * HeadDim + pos * HeadDim

\* buf[start..start + src.len()].copy_from_slice(src), lines 371 and 375.
CopyFromSlice(buf, first, src) ==
    [i \in DOMAIN buf |->
        IF first <= i /\ i < first + Len(src) THEN src[i - first + 1]
        ELSE buf[i]]

\* &buf[offset..end] as a sequence, lines 391 and 403.
Slice(buf, offset, end) == [i \in 1..(end - offset) |-> buf[offset + i - 1]]

\* A fullness test that lets one append too many through.
CacheIsFull_OffByOne == seq_len > max_len

\* append, line 361.
CacheIsFull == seq_len >= max_len

\* get_keys, lines 383-392.
get_keys(layer_idx, pos) ==
    IF pos >= seq_len THEN "None"
    ELSE Slice(kv_keys, Offset(layer_idx, pos),
               Offset(layer_idx, pos) + NumHeads * HeadDim)

\* get_values, lines 395-404.
get_values(layer_idx, pos) ==
    IF pos >= seq_len THEN "None"
    ELSE Slice(kv_values, Offset(layer_idx, pos),
               Offset(layer_idx, pos) + NumHeads * HeadDim)

\* Every layer has been appended to once since the round began.
StepComplete == step_layers = Layers

\* append, lines 356-380.  A slice that ends past the buffer makes the
\* indexing at lines 371 and 375 panic.
append(layer_idx, keys, values) ==
    LET offset == Offset(layer_idx, seq_len)
        fresh == StepComplete \/ layer_idx \in step_layers
    IN  IF layer_idx >= NumLayers THEN
            /\ kvop' = [name |-> "append", layer |-> layer_idx,
                        result |-> "Tensor: Layer index out of bounds"]
            /\ UNCHANGED <<kv_keys, kv_values, seq_len, max_len, appended,
                           step_base, step_layers>>
        ELSE IF CacheIsFull THEN
            /\ kvop' = [name |-> "append", layer |-> layer_idx,
                        result |-> "Tensor: KV cache full"]
            /\ UNCHANGED <<kv_keys, kv_values, seq_len, max_len, appended,
                           step_base, step_layers>>
        ELSE IF offset + Len(keys) > TotalSize(max_len) THEN
            /\ kvop' = [name |-> "append", layer |-> layer_idx,
                        result |-> "panic"]
            /\ UNCHANGED <<kv_keys, kv_values, seq_len, max_len, appended,
                           step_base, step_layers>>
        ELSE
            /\ kv_keys' = CopyFromSlice(kv_keys, offset, keys)
            /\ kv_values' = CopyFromSlice(kv_values, offset, values)
            /\ seq_len' = seq_len + 1
            /\ kvop' = [name |-> "append", layer |-> layer_idx,
                        result |-> "Ok"]
            /\ appended' =
                  [c \in DOMAIN appended \cup {<<layer_idx, seq_len>>} |->
                      IF c = <<layer_idx, seq_len>>
                        THEN [keys |-> keys, values |-> values]
                        ELSE appended[c]]
            /\ step_base' = IF fresh THEN seq_len ELSE step_base
            /\ step_layers' = IF fresh THEN {layer_idx}
                              ELSE step_layers \cup {layer_idx}
            /\ UNCHANGED max_len

\* append called with a layer index and two vectors.
CacheAppend(layer_idx, x, y) ==
    /\ append(layer_idx, Vector(x), Vector(y))
    /\ UNCHANGED nonCacheVars

\* reset, lines 407-411.
CacheReset ==
    /\ seq_len' = 0
    /\ kv_keys' = [i \in DOMAIN kv_keys |-> 0]
    /\ kv_values' = [i \in DOMAIN kv_values |-> 0]
    /\ kvop' = [name |-> "reset", layer |-> 0, result |-> "-"]
    /\ appended' = [c \in {} |-> 0]
    /\ step_base' = 0
    /\ step_layers' = {}
    /\ UNCHANGED <<max_len, nonCacheVars>>

\* resize, lines 414-421.
CacheResize(new_max_len) ==
    /\ kv_keys' = Zeros(TotalSize(new_max_len))
    /\ kv_values' = Zeros(TotalSize(new_max_len))
    /\ max_len' = new_max_len
    /\ seq_len' = 0
    /\ kvop' = [name |-> "resize", layer |-> 0, result |-> "-"]
    /\ appended' = [c \in {} |-> 0]
    /\ step_base' = 0
    /\ step_layers' = {}
    /\ UNCHANGED nonCacheVars

CacheNext ==
    \/ \E layer_idx \in 0..NumLayers : \E x, y \in 1..NumValues :
          CacheAppend(layer_idx, x, y)
    \/ CacheReset
    \/ \E new_max_len \in 0..MaxLenBound : CacheResize(new_max_len)

\* ------------------------------------------- ModelPartition, InferenceEngine

\* TensorDType, safetensors.rs lines 16-29.
DTypes == {"F32", "F16", "I32", "I8", "U8", "BOOL"}

\* The tensor names the three accessors ask for, after the layer prefix
\* (model.rs lines 222-225, 244-246, 263-264), in the order they are asked.
AttentionNames ==
    <<"attention.wq.weight", "attention.wk.weight", "attention.wv.weight",
      "attention.wo.weight">>
MlpNames ==
    <<"feed_forward.gate_proj.weight", "feed_forward.up_proj.weight",
      "feed_forward.down_proj.weight">>
LayerNormNames == <<"attention_norm.weight", "ffn_norm.weight">>

\* The elements of a sequence.
Range(seq) == {seq[i] : i \in DOMAIN seq}

\* format!("model.layers.{}.{}", layer_idx, suffix): the pair stands for the
\* string, which determines both parts.
TensorName(layer_idx, suffix) == <<layer_idx, suffix>>

\* The names of the weights file: those of total_layers layers.
TensorNames ==
    {TensorName(l, x) :
        l \in Layers,
        x \in Range(AttentionNames) \cup Range(MlpNames) \cup Range(LayerNormNames)}

\* ModelPartition::load and InferenceEngine::new (main.rs lines 49-63) over a
\* weights file in which every tensor is F32, but for at most one that is
\* missing or of another dtype; the partition is a non-empty range of layers.
EngineInit ==
    /\ \E odd \in TensorNames : \E dtype \in DTypes \cup {"missing"} :
          tensor_buffer = [n \in TensorNames |-> IF n = odd THEN dtype ELSE "F32"]
    /\ start_layer \in Layers
    /\ end_layer \in (start_layer + 1)..NumLayers
    /\ acc = [name |-> "-", layer |-> 0, result |-> [kind |-> "-"]]
    /\ fb = [name |-> "-", batch |-> <<>>, result |-> [kind |-> "-"]]
    /\ worker_loop = "running"

\* SafeTensorBuffer::get_tensor, safetensors.rs lines 179-196: the name is in
\* the header, its data lies inside the file and its dtype parses.
Resolves(name) == name \in DOMAIN tensor_buffer /\ tensor_buffer[name] # "missing"

\* ModelPartition::get_tensor, model.rs lines 144-165: F32 data is copied, F16
\* data converted, I8 reaches unimplemented!(), any other dtype gives None.
\* The f32 vector returned is named after the tensor it was read from.
get_tensor(name) ==
    IF ~Resolves(name) THEN [kind |-> "None"]
    ELSE IF tensor_buffer[name] \in {"F32", "F16"}
      THEN [kind |-> "Some", data |-> name]
    ELSE IF tensor_buffer[name] = "I8" THEN [kind |-> "panic"]
    ELSE [kind |-> "None"]

\* The chain of `self.get_tensor(..)?` of an accessor: the first tensor that
\* is not there ends it.
RECURSIVE GetAll(_, _, _)
GetAll(layer_idx, suffixes, got) ==
    IF suffixes = <<>> THEN [kind |-> "Some", fields |-> got]
    ELSE LET t == get_tensor(TensorName(layer_idx, Head(suffixes)))
         IN  IF t.kind # "Some" THEN t
             ELSE GetAll(layer_idx, Tail(suffixes), Append(got, t.data))

\* The range check and the chain, common to the three accessors.
Bundle(layer_idx, suffixes) ==
    IF layer_idx < start_layer \/ layer_idx >= end_layer THEN [kind |-> "None"]
    ELSE GetAll(layer_idx, suffixes, <<>>)

\* model.rs lines 214-233, 236-253 and 256-270.
get_attention_weights(layer_idx) == Bundle(layer_idx, AttentionNames)
get_mlp_weights(layer_idx) == Bundle(layer_idx, MlpNames)
get_layer_norm(layer_idx) == Bundle(layer_idx, LayerNormNames)

GetAttentionWeights(layer_idx) ==
    /\ acc' = [name |-> "get_attention_weights", layer |-> layer_idx,
               result |-> get_attention_weights(layer_idx)]
    /\ UNCHANGED <<tensor_buffer, start_layer, end_layer, fb, worker_loop,
                   nonEngineVars>>

GetMlpWeights(layer_idx) ==
    /\ acc' = [name |-> "get_mlp_weights", layer |-> layer_idx,
               result |-> get_mlp_weights(layer_idx)]
    /\ UNCHANGED <<tensor_buffer, start_layer, end_layer, fb, worker_loop,
                   nonEngineVars>>

GetLayerNorm(layer_idx) ==
    /\ acc' = [name |-> "get_layer_norm", layer |-> layer_idx,
               result |-> get_layer_norm(layer_idx)]
    /\ UNCHANGED <<tensor_buffer, start_layer, end_layer, fb, worker_loop,
                   nonEngineVars>>

\* forward_layer, inference.rs lines 108-180: the three bundles are fetched
\* in turn, an absent one is a Model error; the arithmetic that follows is not
\* followed and its result stands as Ok.
forward_layer(layer_idx) ==
    LET a == get_attention_weights(layer_idx)
        m == get_mlp_weights(layer_idx)
        n == get_layer_norm(layer_idx)
    IN  IF a.kind = "panic" THEN a
        ELSE IF a.kind = "None"
          THEN [kind |-> "Err", error |-> "Model: No attention weights"]
        ELSE IF m.kind = "panic" THEN m
        ELSE IF m.kind = "None"
          THEN [kind |-> "Err", error |-> "Model: No MLP weights"]
        ELSE IF n.kind = "panic" THEN n
        ELSE IF n.kind = "None"
          THEN [kind |-> "Err", error |-> "Model: No layer norm"]
        ELSE [kind |-> "Ok"]

\* forward_request, inference.rs lines 74-83: the layers of the group in
\* order, `?` on each.  The hidden states returned are named after the
\* request whose tokens they were computed from.
RECURSIVE ForwardLayers(_, _)
ForwardLayers(layer_idx, request) ==
    IF layer_idx >= end_layer THEN [kind |-> "Ok", output |-> <<"hidden", request>>]
    ELSE LET o == forward_layer(layer_idx)
         IN  IF o.kind # "Ok" THEN o ELSE ForwardLayers(layer_idx + 1, request)

forward_request(request) == ForwardLayers(start_layer, request)

\* forward_batch, inference.rs lines 58-61: the loop over the requests of the
\* batch; `?` returns the first error as the result of the whole call.
RECURSIVE ForwardRequests(_, _)
ForwardRequests(requests, outputs) ==
    IF requests = <<>> THEN [kind |-> "Ok", outputs |-> outputs]
    ELSE LET o == forward_request(Head(requests))
         IN  IF o.kind # "Ok" THEN o
             ELSE ForwardRequests(Tail(requests), Append(outputs, o.output))

\* forward_batch, inference.rs lines 42-71.
forward_batch(requests) ==
    IF requests = <<>> THEN [kind |-> "Ok", outputs |-> <<>>]
    ELSE ForwardRequests(requests, <<>>)

\* The batches next_batch may hand over: up to MaxBatchSizeBound distinct
\* requests in any order (forward_batch is also callable on an empty one).
Batches ==
    UNION {{b \in [1..n -> Requests] : \A i, j \in 1..n : b[i] = b[j] => i = j} :
              n \in 0..MaxBatchSizeBound}

\* run_worker_loop, main.rs lines 100-128: the batch is passed to
\* forward_batch; Ok and Err are logged and the loop goes on; a panic ends the
\* spawned task (main.rs line 69).
ForwardBatch(requests) ==
    /\ worker_loop = "running"
    /\ fb' = [name |-> "forward_batch", batch |-> requests,
              result |-> forward_batch(requests)]
    /\ worker_loop' = IF forward_batch(requests).kind = "panic"
                        THEN "panicked" ELSE "running"
    /\ UNCHANGED <<tensor_buffer, start_layer, end_layer, acc, nonEngineVars>>

EngineNext ==
    \/ \E layer_idx \in 0..NumLayers : GetAttentionWeights(layer_idx)
    \/ \E layer_idx \in 0..NumLayers : GetMlpWeights(layer_idx)
    \/ \E layer_idx \in 0..NumLayers : GetLayerNorm(layer_idx)
    \/ \E requests \in Batches : ForwardBatch(requests)

\* ---------------------------------------------------------- SafeTensorBuffer

\* TensorDType::size, safetensors.rs lines 33-42.
size(dtype) ==
    IF dtype \in {"F32", "I32"} THEN 4
    ELSE IF dtype = "F16" THEN 2
    ELSE 1

\* TensorDType::from_str, lines 45-55.
from_str(tag) == IF tag \in DTypes THEN [kind |-> "Some", value |-> tag]
                 ELSE [kind |-> "None"]

\* self.shape.iter().product(), lines 103 and 248.
RECURSIVE Product(_)
Product(shape) == IF shape = <<>> THEN 1 ELSE Head(shape) * Product(Tail(shape))

\* The shapes of the tensors written.
Shapes == UNION {[1..n -> 1..MaxDim] : n \in 1..2}

\* The names of the tensors written, and a name no file holds.
StoreNames == {"a", "b"}
UnknownName == "zz"

\* A dtype tag TensorDType::from_str does not know.
UnknownTag == "BF16"

\* A TensorInfo (lines 79-92) for a payload of the right length at lo.
Info(dtype, shape, lo) ==
    [dtype |-> dtype, shape |-> shape,
     data_offsets |-> <<lo, lo + Product(shape) * size(dtype)>>]

\* The container a writer makes of tensor "a" and, when with_b, a one-byte
\* tensor "b" packed after it: header length field, header text of hlen
\* bytes, payload.  `json` says what the text is: "direct" maps each name to
\* its info (the layout of the container format); "wrapped" is an object
\* whose one field "tensors" holds that map (SafeTensorHeader, lines 70-76,
\* and create_test_safetensor, lines 277-287); "malformed" is no JSON object.
Written(json, hlen, dtype, shape, with_b) ==
    LET a == Info(dtype, shape, 0)
        b == Info("U8", <<1>>, a.data_offsets[2])
        tensors == IF with_b THEN [n \in StoreNames |-> IF n = "a" THEN a ELSE b]
                   ELSE [n \in {"a"} |-> a]
        payload == IF with_b THEN b.data_offsets[2] ELSE a.data_offsets[2]
    IN  [size |-> 8 + hlen + payload, header_len |-> hlen, utf8 |-> TRUE,
         json |-> json, tensors |-> tensors]

\* A header length field whose bytes [8, 8 + h) are not the header text.
OtherHeaderLen(f, h) ==
    [f EXCEPT !.header_len = h, !.json = "malformed"]

\* The files open is called on: a written container, or one that differs
\* from a written container in one respect: truncated, a header length field
\* that is zero or near 2^64, a header that is no UTF-8 or no JSON, or an
\* entry of "a" with an unknown dtype tag, another shape or other offsets.
Files ==
    LET written == {Written(json, hlen, dtype, shape, with_b) :
                       json \in {"direct", "wrapped"}, hlen \in 1..MaxHeaderLen,
                       dtype \in DTypes, shape \in Shapes, with_b \in BOOLEAN}
        offsets(f) == f.tensors["a"].data_offsets
    IN  written
        \cup {[f EXCEPT !.size = n] :
                 f \in written, n \in {7, 8, 8 + MaxHeaderLen - 1}}
        \cup {[f EXCEPT !.size = f.size - 1] : f \in written}
        \cup {OtherHeaderLen(f, h) :
                 f \in written,
                 h \in {0, USIZE_MODULUS - 9, USIZE_MODULUS - 8, USIZE_MODULUS - 1}}
        \cup {[f EXCEPT !.utf8 = FALSE] : f \in written}
        \cup {[f EXCEPT !.json = "malformed"] : f \in written}
        \cup {[f EXCEPT !.tensors["a"].dtype = UnknownTag] : f \in written}
        \cup {[f EXCEPT !.tensors["a"].shape = Append(@, MaxDim)] : f \in written}
        \cup UNION {{[f EXCEPT !.tensors["a"].data_offsets = <<lo, hi>>] :
                        lo \in {0, 1}, hi \in {0, f.size}} :
                    f \in written}

\* A file, a build, and no call yet.
StoreInit ==
    /\ file \in Files
    /\ debug_assertions \in BOOLEAN
    /\ store = [kind |-> "-"]
    /\ view = [name |-> "-", result |-> [kind |-> "-"]]

\* usize addition: a panic in a build with overflow checks, wrapping in one
\* without.
Add(x, y) ==
    IF x + y < USIZE_MODULUS THEN [kind |-> "Ok", value |-> x + y]
    ELSE IF debug_assertions THEN [kind |-> "panic"]
    ELSE [kind |-> "Ok", value |-> (x + y) % USIZE_MODULUS]

\* serde_json::from_str::<SafeTensorHeader>, line 156: the object must have
\* the field "tensors" holding the map of name to TensorInfo.
from_str_header(f) ==
    IF f.json = "wrapped" THEN [kind |-> "Ok", header |-> f.tensors]
    ELSE [kind |-> "Err"]

\* open, line 147: mmap.len() < 8 + header_len.
Truncated(f, header_end) == f.size < header_end

\* SafeTensorBuffer::open, lines 128-164, on a file that can be opened and
\* mapped.  The store keeps the mapping (its length), the parsed header and
\* header_len.
open(f) ==
    IF f.size < 8
      THEN [kind |-> "Err", error |-> "MemoryMap: File too small to contain header"]
    ELSE LET header_end == Add(8, f.header_len)
         IN  IF header_end.kind = "panic" THEN [kind |-> "panic"]
             ELSE IF Truncated(f, header_end.value)
               THEN [kind |-> "Err",
                     error |-> "MemoryMap: File truncated: header length exceeds file size"]
             ELSE IF 8 > header_end.value THEN [kind |-> "panic"]
             ELSE IF ~f.utf8
               THEN [kind |-> "Err", error |-> "MemoryMap: Invalid UTF-8 in header"]
             ELSE IF from_str_header(f).kind = "Err"
               THEN [kind |-> "Err",
                     error |-> "MemoryMap: Failed to parse header JSON"]
             ELSE [kind |-> "Ok", mmap_len |-> f.size,
                   header |-> from_str_header(f).header,
                   header_len |-> f.header_len]

\* SafeTensorBuffer::get_tensor, lines 179-196.  The view is the slice
\* &mmap[data_start..data_end]: a pointer into the mapping (as an offset from
\* its base) and a length, with the shape and the dtype.
get_store_tensor(name) ==
    IF name \notin DOMAIN store.header THEN [kind |-> "None"]
    ELSE LET info == store.header[name]
             data_start == 8 + store.header_len + info.data_offsets[1]
             data_end == 8 + store.header_len + info.data_offsets[2]
         IN  IF data_end > store.mmap_len THEN [kind |-> "None"]
             ELSE IF from_str(info.dtype).kind = "None" THEN [kind |-> "None"]
             ELSE IF data_start > data_end THEN [kind |-> "panic"]
             ELSE [kind |-> "Some", ptr |-> data_start,
                   len |-> data_end - data_start, shape |-> info.shape,
                   dtype |-> from_str(info.dtype).value]

Open ==
    /\ store.kind = "-"
    /\ store' = open(file)
    /\ UNCHANGED <<file, debug_assertions, view, nonStoreVars>>

GetTensor(name) ==
    /\ store.kind = "Ok"
    /\ view' = [name |-> name, result |-> get_store_tensor(name)]
    /\ UNCHANGED <<file, debug_assertions, store, nonStoreVars>>

StoreNext ==
    \/ Open
    \/ \E name \in StoreNames \cup {UnknownName} : GetTensor(name)

\* --------------------------------------------------------- PriorityScheduler

\* A scan that looks at the normal queue first.
PriorityOrder_NormalFirst ==
    <<"normal_priority", "high_priority", "low_priority">>

\* next_batch, line 290: let queues = [&self.high_priority,
\* &self.normal_priority, &self.low_priority].
PriorityOrder == <<"high_priority", "normal_priority", "low_priority">>

\* submit, lines 265-269: the queue of Priority::High, Normal, Low.
PriorityQueues == {"high_priority", "normal_priority", "low_priority"}

\* PriorityScheduler::new, lines 250-258: empty queues, flag clear, no
\* permit; no submit, next_batch or shutdown call has begun.
PrioInit ==
    /\ priority_queues = [q \in PriorityQueues |-> <<>>]
    /\ prio_shutdown = FALSE
    /\ prio_permit = FALSE
    /\ prio_spc = [r \in Requests |-> "idle"]
    /\ prio_class = [r \in Requests |-> "-"]
    /\ prio_pushed = <<>>
    /\ prio_cpc = "idle"
    /\ prio_max = 1
    /\ prio_qi = 1
    /\ prio_batch = <<>>
    /\ prio_drain = [q \in PriorityQueues |-> {}]
    /\ prio_batches = <<>>
    /\ prio_result = "-"
    /\ prio_sdpc = "idle"

\* submit, lines 264-271: the match and queue.push(request).
PrioSubmitPush(r, q) ==
    /\ prio_spc[r] = "idle"
    /\ priority_queues' = [priority_queues EXCEPT ![q] = Append(@, r)]
    /\ prio_class' = [prio_class EXCEPT ![r] = q]
    /\ prio_pushed' = Append(prio_pushed, r)
    /\ prio_spc' = [prio_spc EXCEPT ![r] = "notify"]
    /\ UNCHANGED <<prio_shutdown, prio_permit, prio_cpc, prio_max, prio_qi,
                   prio_batch, prio_drain, prio_batches, prio_result, prio_sdpc,
                   nonPrioVars>>

\* submit, lines 272-274: notify.notify_one() wakes the waiter or stores a
\* permit; the call returns Ok.
PrioSubmitNotify(r) ==
    /\ prio_spc[r] = "notify"
    /\ IF prio_cpc = "waiting"
         THEN prio_cpc' = "recurse" /\ prio_permit' = prio_permit
         ELSE prio_cpc' = prio_cpc /\ prio_permit' = TRUE
    /\ prio_spc' = [prio_spc EXCEPT ![r] = "ok"]
    /\ UNCHANGED <<priority_queues, prio_shutdown, prio_class, prio_pushed,
                   prio_max, prio_qi, prio_batch, prio_drain, prio_batches,
                   prio_result, prio_sdpc, nonPrioVars>>

\* The elements of a queue.
Queued(q) == {priority_queues[q][i] : i \in DOMAIN priority_queues[q]}

\* next_batch, lines 280-290: a call (by the caller, with some
\* max_batch_size, or by next_batch itself at line 307, with the same) makes
\* its empty batch and loads the shutdown flag; a set flag makes it return
\* Ok(None).
PrioCheckShutdown ==
    /\ prio_cpc \in {"idle", "recurse"}
    /\ IF prio_cpc = "idle"
         THEN prio_max' \in 1..MaxBatchSizeBound
         ELSE prio_max' = prio_max
    /\ prio_batch' = <<>>
    /\ prio_qi' = 1
    /\ prio_drain' = [q \in PriorityQueues |-> Queued(q)]
    /\ IF prio_shutdown
         THEN prio_cpc' = "idle" /\ prio_result' = "None"
         ELSE prio_cpc' = "scan" /\ prio_result' = "-"
    /\ UNCHANGED <<priority_queues, prio_shutdown, prio_permit, prio_spc,
                   prio_class, prio_pushed, prio_batches, prio_sdpc, nonPrioVars>>

\* next_batch, lines 293-296 and 310: queue.pop() returns a request, which
\* joins the batch; a batch that is full ends both loops and is returned.
PrioPop ==
    /\ prio_cpc = "scan"
    /\ priority_queues[PriorityOrder[prio_qi]] # <<>>
    /\ LET q == PriorityOrder[prio_qi]
           b == Append(prio_batch, Head(priority_queues[q]))
       IN  /\ priority_queues' = [priority_queues EXCEPT ![q] = Tail(@)]
           /\ IF Len(b) < prio_max
                THEN /\ prio_batch' = b
                     /\ UNCHANGED <<prio_cpc, prio_batches, prio_result>>
                ELSE /\ prio_batch' = <<>>
                     /\ prio_batches' = Append(prio_batches, b)
                     /\ prio_result' = "Some"
                     /\ prio_cpc' = "idle"
    /\ UNCHANGED <<prio_shutdown, prio_permit, prio_spc, prio_class,
                   prio_pushed, prio_max, prio_qi, prio_drain, prio_sdpc,
                   nonPrioVars>>

\* next_batch, lines 296-310: queue.pop() returns None and the while loop
\* ends; a batch that is not empty is returned, an empty one sends the scan
\* to the next queue and, after the last queue, the call to the wait.
PrioPopNone ==
    /\ prio_cpc = "scan"
    /\ priority_queues[PriorityOrder[prio_qi]] = <<>>
    /\ IF prio_batch # <<>>
         THEN /\ prio_batches' = Append(prio_batches, prio_batch)
              /\ prio_batch' = <<>>
              /\ prio_result' = "Some"
              /\ prio_cpc' = "idle"
              /\ prio_qi' = prio_qi
         ELSE /\ UNCHANGED <<prio_batches, prio_batch, prio_result>>
              /\ IF prio_qi < Len(PriorityOrder)
                   THEN prio_qi' = prio_qi + 1 /\ prio_cpc' = prio_cpc
                   ELSE prio_qi' = prio_qi /\ prio_cpc' = "wait"
    /\ UNCHANGED <<priority_queues, prio_shutdown, prio_permit, prio_spc,
                   prio_class, prio_pushed, prio_max, prio_drain, prio_sdpc,
                   nonPrioVars>>

\* next_batch, line 306: notify.notified() is created and polled; it takes a
\* stored permit, or else the consumer is suspended.
PrioWait ==
    /\ prio_cpc = "wait"
    /\ IF prio_permit
         THEN prio_permit' = FALSE /\ prio_cpc' = "recurse"
         ELSE prio_permit' = prio_permit /\ prio_cpc' = "waiting"
    /\ UNCHANGED <<priority_queues, prio_shutdown, prio_spc, prio_class,
                   prio_pushed, prio_max, prio_qi, prio_batch, prio_drain,
                   prio_batches, prio_result, prio_sdpc, nonPrioVars>>

\* shutdown, line 316: shutdown.store(true).
PrioShutdownStore ==
    /\ prio_sdpc = "idle"
    /\ prio_shutdown' = TRUE
    /\ prio_sdpc' = "notify"
    /\ UNCHANGED <<priority_queues, prio_permit, prio_spc, prio_class,
                   prio_pushed, prio_cpc, prio_max, prio_qi, prio_batch,
                   prio_drain, prio_batches, prio_result, nonPrioVars>>

\* shutdown, line 317: notify.notify_waiters() wakes a suspended consumer
\* and stores no permit.
PrioShutdownNotify ==
    /\ prio_sdpc = "notify"
    /\ prio_sdpc' = "done"
    /\ prio_cpc' = IF prio_cpc = "waiting" THEN "recurse" ELSE prio_cpc
    /\ UNCHANGED <<priority_queues, prio_shutdown, prio_permit, prio_spc,
                   prio_class, prio_pushed, prio_max, prio_qi, prio_batch,
                   prio_drain, prio_batches, prio_result, nonPrioVars>>

PrioSubmit(r) ==
    \/ \E q \in PriorityQueues : PrioSubmitPush(r, q)
    \/ PrioSubmitNotify(r)

PrioNextBatch ==
    \/ PrioCheckShutdown
    \/ PrioPop
    \/ PrioPopNone
    \/ PrioWait

PrioShutdown ==
    \/ PrioShutdownStore
    \/ PrioShutdownNotify

PrioNext ==
    \/ \E r \in Requests : PrioSubmit(r)
    \/ PrioNextBatch
    \/ PrioShutdown

\* ------------------------------------------------------------ specifications

\* A process without a router, without a scheduler, without a KV cache: the
\* component is as its constructor leaves it, under one configuration.
NoRouter == RouterInit /\ failure_threshold = 1
NoSched == SchedInit /\ max_queue_size = 1 /\ max_batch_size = 1
NoCache == CacheInit /\ max_len = 1
NoEngine ==
    /\ EngineInit
    /\ tensor_buffer = [n \in TensorNames |-> "F32"]
    /\ start_layer = 0
    /\ end_layer = NumLayers
NoStore ==
    /\ StoreInit
    /\ file = Written("wrapped", 1, "F32", <<1>>, FALSE)
    /\ debug_assertions = FALSE
NoPrio == PrioInit
NoHealth == HealthInit

\* The scheduler of a worker process.
Init == SchedInit /\ NoRouter /\ NoCache /\ NoEngine /\ NoStore /\ NoPrio /\ NoHealth

Next == SchedNext

Spec == Init /\ [][Next]_vars

\* The scheduler with producers and a consumer and no caller of shutdown.
FairNext ==
    \/ \E r \in Requests : Submit(r)
    \/ NextBatch

\* The collection loop's condition finds the window elapsed and returns.
CollectReturns == Collect /\ cpc' = "idle"

\* run_worker_loop calls next_batch again after every return and the tokio
\* timer ends every wait (weak fairness of the consumer's steps); the clock
\* read at line 187 passes start + batching_window after finitely many rounds
\* of the collection loop (strong fairness of the loop's exit, which is enabled
\* once in every round).  Nothing is assumed about the producers.
Fairness == WF_vars(NextBatch) /\ SF_vars(CollectReturns)

FairSpec == Init /\ [][FairNext]_vars /\ Fairness

\* The scheduler with a clock, producers and a consumer.
TimedSpec == Init /\ [][TimedNext]_vars

\* The router of the coordinator process; the process has no scheduler.
RouterSpecInit == RouterInit /\ NoSched /\ NoCache /\ NoEngine /\ NoStore /\ NoPrio /\ NoHealth

RouterSpec == RouterSpecInit /\ [][RouterNext]_vars

\* One KV cache and its callers.
CacheSpecInit == CacheInit /\ NoSched /\ NoRouter /\ NoEngine /\ NoStore /\ NoPrio /\ NoHealth

CacheSpec == CacheSpecInit /\ [][CacheNext]_vars

\* One model partition, its inference engine and the worker loop driving it.
EngineSpecInit == EngineInit /\ NoSched /\ NoRouter /\ NoCache /\ NoStore /\ NoPrio /\ NoHealth

EngineSpec == EngineSpecInit /\ [][EngineNext]_vars

\* One container file and the store opened on it.
StoreSpecInit == StoreInit /\ NoSched /\ NoRouter /\ NoCache /\ NoEngine /\ NoPrio /\ NoHealth

StoreSpec == StoreSpecInit /\ [][StoreNext]_vars

\* The priority scheduler with producers, a consumer calling next_batch again
\* after every return, and a caller of shutdown.
PrioSpecInit ==
    PrioInit /\ NoSched /\ NoRouter /\ NoCache /\ NoEngine /\ NoStore /\ NoHealth

PrioSpec == PrioSpecInit /\ [][PrioNext]_vars

\* The tokio runtime polls a task that can run: the consumer and the caller
\* of shutdown take their steps.  Nothing is assumed about the producers.
PrioFairness == WF_vars(PrioNextBatch) /\ WF_vars(PrioShutdown)

PrioFairSpec == PrioSpecInit /\ [][PrioNext]_vars /\ PrioFairness

\* The router of the coordinator process with its tasks.
HealthSpecInit ==
    /\ RouterInit
    /\ HealthInit
    /\ NoSched /\ NoCache /\ NoEngine /\ NoStore /\ NoPrio

HealthSpec == HealthSpecInit /\ [][HealthNext]_vars

\* -------------------------------------------------- BatchScheduler: claims

\* The places request r occupies in the returned batches.
Places(r) ==
    {<<i, j>> \in (1..Len(batches)) \X (1..NumRequests) :
        j <= Len(batches[i]) /\ batches[i][j] = r}

\* The places request r occupies in the batch under construction.
PlacesInBatch(r) == {j \in 1..Len(batch) : batch[j] = r}

\* The places request r occupies in the queue.
PlacesInQueue(r) == {j \in 1..Len(queue) : queue[j] = r}

\* r is in a batch, returned or under construction.
Dispatched(r) == Places(r) # {} \/ PlacesInBatch(r) # {}

\* submit(r) passed the backpressure check and pushed r: nothing can make it
\* return anything but Ok.
Admitted(r) == spc[r] \in {"incr", "notify", "ok"}

\* The consumer has not called next_batch yet.
ConsumerNeverRan == cpc = "idle" /\ result = "-" /\ batches = <<>>

Min(a, b) == IF a <= b THEN a ELSE b

\* C1: under every interleaving of the producers' submit calls with the
\* consumer's next_batch calls, a request occupies at most one place among all
\* batches (returned or under construction); a request in a batch is one whose
\* submit was admitted (it returns Ok, and has returned Ok once every submit
\* call is over); a request whose submit returned QueueFull is in no batch and
\* not in the queue.
C1_DispatchedAtMostOnce ==
    \A r \in Requests :
        /\ Cardinality(Places(r)) + Cardinality(PlacesInBatch(r)) <= 1
        /\ Dispatched(r) => Admitted(r)
        /\ (Dispatched(r) /\ \A q \in Requests : ~InSubmit(q)) => spc[r] = "ok"
        /\ spc[r] = "full" => ~Dispatched(r) /\ PlacesInQueue(r) = {}

\* C1 witness: one request was returned in a batch and another was rejected.
C1_Witness ==
    \E r, q \in Requests : Places(r) # {} /\ spc[r] = "ok" /\ spc[q] = "full"

\* C2 (as claimed): the queue never holds more than max_queue_size requests.
C2_QueueBounded == Len(queue) <= max_queue_size

\* The number of fetch_add and of fetch_sub operations performed so far.
NumIncr == Cardinality({r \in Requests : spc[r] \in {"notify", "ok"}})
NumDecr ==
    Cardinality({r \in Requests : Dispatched(r)})
        - (IF cpc = "fetch_sub" THEN 1 ELSE 0)

\* C3, the state part: the depth counter is the number of accepted submits
\* that reached their fetch_add less the pops accounted for; every accepted
\* request was enqueued; and when the submits ran one after the other with no
\* consumer, the first max_queue_size of them were accepted, the later ones
\* rejected, and queue_depth() is the number accepted.
C3_State ==
    /\ queue_depth = (NumIncr - NumDecr) % USIZE_MODULUS
    /\ \A r \in Requests :
          Admitted(r) =>
             Cardinality(PlacesInQueue(r)) + Cardinality(PlacesInBatch(r))
                 + Cardinality(Places(r)) = 1
    /\ (ConsumerNeverRan /\ ~overlapped /\ \A r \in Requests : ~InSubmit(r)) =>
          LET called == Cardinality({r \in Requests : spc[r] # "idle"})
              accepted == Cardinality({r \in Requests : spc[r] = "ok"})
          IN  /\ accepted = Min(called, max_queue_size)
              /\ queue_depth = accepted
              /\ Len(queue) = accepted

\* C3, the step part: the depth check of submit(r) rejects exactly when
\* queue_depth >= max_queue_size, and a rejection changes neither the queue
\* nor the counter.
C3_Step ==
    \A r \in Requests :
        (spc[r] = "idle" /\ spc'[r] # "idle") =>
            /\ (spc'[r] = "full") <=> (queue_depth >= max_queue_size)
            /\ (spc'[r] = "push") <=> (queue_depth < max_queue_size)
            /\ queue' = queue /\ queue_depth' = queue_depth

\* C3: submit returns QueueFull exactly when the depth is >= max_queue_size
\* and otherwise enqueues the request and raises the depth by one; a rejected
\* submit changes nothing; sequential submits without a consumer accept the
\* first max_queue_size requests and leave queue_depth() = max_queue_size.
C3_Backpressure == [](C3_State) /\ [][C3_Step]_vars

\* C3 witness: sequential submits, no consumer, one more submit than the queue
\* takes: the last was rejected and the depth is max_queue_size.
C3_Witness ==
    /\ ConsumerNeverRan /\ ~overlapped
    /\ \A r \in Requests : spc[r] \in {"ok", "full"}
    /\ \E r \in Requests : spc[r] = "full"
    /\ queue_depth = max_queue_size

\* C4: every batch next_batch returned holds at least one and at most
\* max_batch_size requests.
C4_BatchSize ==
    \A i \in 1..Len(batches) :
        1 <= Len(batches[i]) /\ Len(batches[i]) <= max_batch_size

\* C4 witness: a batch was returned with max_batch_size requests while a
\* request was left in the queue.
C4_Witness ==
    \E i \in 1..Len(batches) :
        /\ Len(batches[i]) = max_batch_size
        /\ queue # <<>>

\* The consumer is between two next_batch calls, or inside a call that was
\* suspended waiting for its first request and has not run since.
BetweenCallsOrSuspended == cpc \in {"idle", "waiting_first", "pop_second"}

\* C10 (as claimed): once the shutdown flag is set, a next_batch call that
\* starts afterwards, or that was suspended waiting when the flag was set,
\* dequeues no request and returns no batch: every step taken from such a
\* state leaves the returned batches as they are and removes nothing from the
\* queue.
C10_NothingAfterShutdown ==
    [][(shutdown /\ BetweenCallsOrSuspended) =>
          (batches' = batches /\ Len(queue') >= Len(queue))]_vars

\* C11 (as claimed): a next_batch call that waits the whole batching window
\* for its first request while the queue stays empty returns an absent batch,
\* Ok(None), and not an error value: the step that ends such a wait by
\* returning to the caller returns None.
C11_IdleWindowReturnsNone ==
    [][(cpc = "waiting_first" /\ queue = <<>> /\ cpc' = "idle") =>
          result' = "None"]_vars

\* C12: when the consumer keeps calling next_batch and shutdown is never
\* called, every request whose submit returned Ok is eventually in a returned
\* batch, whatever the consumer was doing when the request arrived.
C12_AcceptedEventuallyDispatched ==
    \A r \in Requests : (spc[r] = "ok") ~> (Places(r) # {})

\* C12 witness: the consumer found the queue empty (line 164) and has not yet
\* begun to wait (line 171); in between, a submit pushed its request, stored
\* the permit and returned Ok.
C12_Witness ==
    /\ cpc = "wait_first"
    /\ permit
    /\ \E r \in Requests : spc[r] = "ok" /\ PlacesInQueue(r) # {}

\* The places request r occupies in the batches, the batch under construction
\* counting as the one after the last returned batch.
Slots(r) ==
    LET all == Append(batches, batch)
    IN  {<<i, j>> \in (1..Len(all)) \X (1..NumRequests) :
            j <= Len(all[i]) /\ all[i][j] = r}

\* Place p is in an earlier batch than q, or earlier in the same batch.
Earlier(p, q) == p[1] < q[1] \/ (p[1] = q[1] /\ p[2] < q[2])

\* C13: for accepted requests a and b such that submit(a) returned before
\* submit(b) was called, whenever b is in a batch, a is in an earlier batch or
\* at an earlier index of the same batch.
C13_Fifo ==
    \A a, b \in Requests :
        (<<a, b>> \in preceded /\ spc[a] = "ok" /\ Admitted(b)) =>
            \A q \in Slots(b) : \E p \in Slots(a) : Earlier(p, q)

\* C13 witness: two requests submitted one after the other were returned in
\* the same batch.
C13_Witness ==
    \E a, b \in Requests :
        /\ <<a, b>> \in preceded
        /\ \E p \in Places(a) : \E q \in Places(b) : p[1] = q[1]

\* The consumer is about to wait, or is waiting, for a notification.
AtWait == cpc \in {"wait_first", "waiting_first", "wait_more", "waiting_more"}

\* No submit call is between its depth check and its return.
NoSubmitRunning == \A r \in Requests : ~InSubmit(r)

\* The batch a returning step hands to the caller.
Returned_Batch == batches'[Len(batches')]

\* C15 (as claimed): a next_batch call that found n >= 1 requests queued,
\* with no submit call taking a step during the call, returns exactly the first
\* min(n, max_batch_size) of them, leaves the others queued and lowers the
\* depth counter by the size of the batch; with n >= max_batch_size it does
\* not wait.
C15_ReturnsFirstMin ==
    [][(cpc # "idle" /\ Len(call.queue) >= 1 /\ NoSubmitRunning) =>
          LET n == Len(call.queue)
              k == Min(n, max_batch_size)
          IN  /\ cpc' = "idle" =>
                    /\ result' = "Some"
                    /\ batches' # batches
                    /\ Returned_Batch = SubSeq(call.queue, 1, k)
                    /\ queue' = SubSeq(call.queue, k + 1, n)
                    /\ queue_depth' = (call.depth - k) % USIZE_MODULUS
              /\ n >= max_batch_size => cpc' \notin
                    {"wait_first", "waiting_first", "wait_more", "waiting_more"}]_vars

\* C15 (amended): such a call returns a batch of the first k queued requests
\* for some k in 1..min(n, max_batch_size), leaves the other n - k queued and
\* lowers the depth counter by k; k is min(n, max_batch_size) unless the loop
\* condition at line 187 found the batching window elapsed while the batch
\* had room; with n >= max_batch_size the call does not wait.
C15_ReturnsPrefix ==
    [][(cpc # "idle" /\ Len(call.queue) >= 1 /\ NoSubmitRunning) =>
          LET n == Len(call.queue)
          IN  /\ cpc' = "idle" =>
                    /\ result' = "Some"
                    /\ batches' # batches
                    /\ LET k == Len(Returned_Batch)
                       IN  /\ 1 <= k /\ k <= Min(n, max_batch_size)
                           /\ Returned_Batch = SubSeq(call.queue, 1, k)
                           /\ queue' = SubSeq(call.queue, k + 1, n)
                           /\ queue_depth' = (call.depth - k) % USIZE_MODULUS
                           /\ \/ k = Min(n, max_batch_size)
                              \/ cpc = "collect" /\ BatchHasRoom
              /\ n >= max_batch_size => ~AtWait']_vars

\* C15 witness: a call that found more than max_batch_size requests queued
\* has just returned the first max_batch_size of them and left the others.
C15_Witness ==
    /\ cpc = "idle" /\ result = "Some" /\ NoSubmitRunning
    /\ Len(call.queue) > max_batch_size
    /\ batches[Len(batches)] = SubSeq(call.queue, 1, max_batch_size)
    /\ queue = SubSeq(call.queue, max_batch_size + 1, Len(call.queue))
    /\ queue_depth = (call.depth - max_batch_size) % USIZE_MODULUS

\* C14 (as claimed): when next_batch returns a batch, the time elapsed since
\* the batch's creation_time is at most the batching window plus the
\* scheduling allowance; and a call whose batch holds a request and has
\* reached the window returns it and does not start another wait.
C14_AgeWithinWindow ==
    [][/\ batches' # batches =>
             now' - creation_time' <= BatchingWindow + Epsilon
       /\ (batch # <<>> /\ now - creation_time >= BatchingWindow /\ ~AtWait) =>
             ~AtWait']_vars

\* C25, the state part: the depth counter holds a count of requests, at most
\* the number of submit calls, never a value that went below zero and
\* wrapped around.
C25_State == queue_depth <= NumRequests

\* C25, the step part: submit returns QueueFull only with at least
\* max_queue_size requests held in the queue.
C25_Step ==
    \A r \in Requests :
        (spc[r] = "idle" /\ spc'[r] = "full") => Len(queue) >= max_queue_size

\* C25 (as claimed): under every interleaving of submit (push, then
\* fetch_add) with next_batch (pop, then fetch_sub) the depth counter never
\* wraps and no submit is rejected while the queue is below capacity.
C25_DepthNeverWraps == [](C25_State) /\ [][C25_Step]_vars

\* ------------------------------------------------------------ Router: claims

\* The registered workers whose health flag is set.
HealthyWorkers == {e \in DOMAIN workers : workers[e].healthy}

\* C5: when some registered worker is healthy, select_worker returns the
\* endpoint of a registered, healthy worker whose queue_depth is the least
\* among the healthy ones, after any sequence of router calls.
C5_SelectsLeastLoadedHealthy ==
    (op.name = "select_worker" /\ HealthyWorkers # {}) =>
        /\ op.result \in DOMAIN workers
        /\ workers[op.result].healthy
        /\ \A e \in HealthyWorkers :
              workers[op.result].queue_depth <= workers[e].queue_depth

\* C5 witness: select_worker returned a worker while a healthy worker with a
\* deeper queue and an unhealthy worker with a shallower one were registered.
C5_Witness ==
    /\ op.name = "select_worker"
    /\ op.result \in DOMAIN workers
    /\ \E h \in HealthyWorkers :
          /\ workers[h].queue_depth > workers[op.result].queue_depth
          /\ \E u \in DOMAIN workers \ HealthyWorkers :
                workers[u].queue_depth < workers[h].queue_depth

\* C6, the state part: select_worker returns WorkerUnavailable exactly when no
\* registered worker is healthy.
C6_State ==
    op.name = "select_worker" =>
        ((op.result = "WorkerUnavailable") <=> (HealthyWorkers = {}))

\* C6, the step part: a select_worker call changes no router state.
C6_Step ==
    op'.name = "select_worker" =>
        /\ workers' = workers
        /\ clients' = clients
        /\ failure_threshold' = failure_threshold

\* C6: select_worker returns WorkerUnavailable if and only if no registered
\* worker is healthy, and the call changes no router state.
C6_UnavailableIffNoneHealthy == [](C6_State) /\ [][C6_Step]_vars

\* C6 witness: select_worker returned WorkerUnavailable although workers are
\* registered (all of them unhealthy).
C6_Witness ==
    /\ op.name = "select_worker"
    /\ op.result = "WorkerUnavailable"
    /\ Cardinality(DOMAIN workers) >= 2

\* C7: every worker record with failure_count >= failure_threshold has
\* healthy = false.
C7_ThresholdImpliesUnhealthy ==
    \A e \in DOMAIN workers :
        workers[e].failure_count >= failure_threshold => ~workers[e].healthy

\* C7 witness: a record whose failure_count passed a threshold above one, next
\* to a record still below it.
C7_Witness ==
    /\ failure_threshold > 1
    /\ \E e, f \in DOMAIN workers :
          /\ workers[e].failure_count > failure_threshold
          /\ workers[f].failure_count \in 1..(failure_threshold - 1)

\* C8, the state part: failure_count is the number of mark_failed calls since
\* the registration or the last mark_healthy, and the worker is healthy
\* exactly while that number is below failure_threshold.
C8_State ==
    \A e \in DOMAIN workers :
        /\ workers[e].failure_count = strikes[e]
        /\ workers[e].healthy <=> (strikes[e] < failure_threshold)

\* C8, the step part: a mark_failed call on a registered endpoint raises its
\* failure_count by exactly one and touches no other record.
C8_Step ==
    (op'.name = "mark_failed" /\ op'.endpoint \in DOMAIN workers) =>
        /\ DOMAIN workers' = DOMAIN workers
        /\ \A e \in DOMAIN workers :
              workers'[e].failure_count =
                  workers[e].failure_count + (IF e = op'.endpoint THEN 1 ELSE 0)

\* C8: a worker stays healthy through fewer than failure_threshold mark_failed
\* calls since its registration or last mark_healthy, turns unhealthy at the
\* failure_threshold-th, and each mark_failed adds one to failure_count.
C8_DemotedAtThreshold == [](C8_State) /\ [][C8_Step]_vars

\* C8 witness: the mark_failed call that reached the threshold found a healthy
\* worker and left it unhealthy, after an earlier failure had left it healthy.
C8_Witness ==
    /\ op.name = "mark_failed"
    /\ op.was = "healthy"
    /\ op.endpoint \in DOMAIN workers
    /\ ~workers[op.endpoint].healthy
    /\ strikes[op.endpoint] = failure_threshold
    /\ failure_threshold > 1

\* C9: right after mark_healthy(e) on a registered endpoint the record is
\* healthy with failure_count 0 and select_worker may return it: it passes
\* the health filter, no call returns WorkerUnavailable, and when no healthy
\* worker has a shallower queue some iteration order selects it.
C9_MarkHealthyRestores ==
    (op.name = "mark_healthy" /\ op.endpoint \in DOMAIN workers) =>
        LET e == op.endpoint
        IN  /\ workers[e].healthy
            /\ workers[e].failure_count = 0
            /\ e \in Eligible(workers)
            /\ \A order \in Orders(DOMAIN workers) :
                  SelectWorkerResult(workers, order) # "WorkerUnavailable"
            /\ (\A h \in HealthyWorkers :
                    workers[e].queue_depth <= workers[h].queue_depth)
                 => \E order \in Orders(DOMAIN workers) :
                       SelectWorkerResult(workers, order) = e

\* C9 witness: mark_healthy was called on a quarantined worker.
C9_Witness ==
    /\ op.name = "mark_healthy"
    /\ op.endpoint \in DOMAIN workers
    /\ op.was = "unhealthy"

\* C24 (as claimed): select_worker returns the same endpoint for the same
\* set of worker records, in whatever order the table yields them (the order
\* depends on the table's hasher and on the history of its insertions).
C24_DeterministicTies ==
    op.name = "select_worker" =>
        \A order \in Orders(DOMAIN workers) :
            SelectWorkerResult(workers, order) = op.result

\* The health-check task makes a mark_healthy or mark_failed call.
MarkStep == hpc = "mark" /\ marks' # marks

\* select_worker returns.
SelectStep == op'.name = "select_worker" /\ op' # op

\* C26, the state part: in a tick every endpoint captured is marked at most
\* once, the endpoints marked and those still to be checked are the
\* endpoints captured, and when the tick is over each was marked exactly
\* once; a worker marked failed failure_threshold times in a row is
\* unhealthy; select_worker returns an endpoint or WorkerUnavailable.
C26_State ==
    /\ \A e \in Pool : marks[e] <= 1
    /\ {e \in Pool : marks[e] = 1} \cup Range(endpoints) = captured
    /\ \A i \in DOMAIN endpoints : marks[endpoints[i]] = 0
    /\ hpc = "tick" => \A e \in captured : marks[e] = 1
    /\ hpc = "mark" =>
          probe \in {"Ok(true)", "Err(Connection: No client for endpoint)"}
    /\ \A e \in DOMAIN workers :
          strikes[e] >= failure_threshold => ~workers[e].healthy
    /\ op.name = "select_worker" => op.result \in Pool \cup {"WorkerUnavailable"}

\* C26, the step part: the mark that follows a probe is mark_healthy when
\* the probe reported serving and mark_failed otherwise, on the endpoint
\* probed; select_worker returns no unhealthy worker.
C26_Step ==
    /\ MarkStep =>
          LET e == Head(endpoints)
          IN  /\ marks' = [marks EXCEPT ![e] = 1]
              /\ e \in DOMAIN workers =>
                    IF probe = "Ok(true)"
                      THEN /\ workers'[e].healthy
                           /\ workers'[e].failure_count = 0
                      ELSE /\ workers'[e].failure_count
                                 = workers[e].failure_count + 1
                           /\ workers'[e].healthy =>
                                 workers'[e].failure_count < failure_threshold
    /\ SelectStep =>
          \/ op'.result = "WorkerUnavailable"
          \/ op'.result \in DOMAIN workers /\ workers[op'.result].healthy

\* C26: on every tick of the health-check task each endpoint captured at the
\* start of the tick is checked once and gets exactly one mark, mark_healthy
\* when the probe reports serving and mark_failed when it does not or fails;
\* a worker failed failure_threshold times in a row is not returned by
\* select_worker until a probe succeeds, and select_worker reports nothing
\* but an endpoint or WorkerUnavailable.
C26_OneMarkPerTick == [](C26_State) /\ [][C26_Step]_vars

\* C26 witness: a tick over two workers is over; one of them failed its
\* probes failure_threshold times in a row and is unhealthy, the other one
\* is healthy.
C26_Witness ==
    /\ hpc = "tick"
    /\ captured = Pool
    /\ \A e \in Pool : marks[e] = 1
    /\ \E e \in DOMAIN workers :
          strikes[e] >= failure_threshold /\ ~workers[e].healthy
    /\ \E e \in DOMAIN workers : workers[e].healthy

\* No register_worker or unregister_worker call is in progress.
Quiescent == \A c \in Callers : rpc[c].pc = "idle"

\* C27 (as claimed): whenever no register_worker or unregister_worker call
\* is in progress the worker table and the client table hold the same
\* endpoints, and no registered worker is marked failed for lack of a client.
C27_TablesAgree ==
    /\ [](Quiescent => DOMAIN workers = clients)
    /\ [][(MarkStep /\ Head(endpoints) \in DOMAIN workers)
              => Head(endpoints) \in clients]_vars

\* C28, the state part: an endpoint whose unregister_worker returned, with
\* no register_worker of it running alongside or called since, is not in the
\* worker table (hence not counted by healthy_worker_count).
C28_State == \A e \in gone : e \notin DOMAIN workers

\* C28, the step part: select_worker does not return such an endpoint; a
\* mark_healthy, mark_failed or update_queue_depth call creates no record,
\* changes no record but that of its endpoint, and changes nothing when its
\* endpoint has no record.
C28_Step ==
    /\ SelectStep => op'.result \notin gone
    /\ \A e \in Pool :
          \/ MarkStep /\ Head(endpoints) = e
          \/ op'.name = "update_queue_depth" /\ op'.endpoint = e /\ op' # op
          => /\ DOMAIN workers' = DOMAIN workers
             /\ \A x \in DOMAIN workers \ {e} : workers'[x] = workers[x]
             /\ e \notin DOMAIN workers => workers' = workers

\* C28: after unregister_worker(e) returned and until a later
\* register_worker(e), e is absent from the worker table and never returned
\* by select_worker, also when the health-check task captured e before and
\* marks it afterwards: the marks and update_queue_depth create no record.
C28_UnregisteredStaysGone == [](C28_State) /\ [][C28_Step]_vars

\* C28 witness: the health-check task marked an endpoint it had captured
\* after the endpoint's unregister_worker had returned.
C28_Witness == \E e \in gone : e \in late /\ e \in captured

\* ----------------------------------------------------------- KVCache: claims

\* C16, the state part: seq_len never exceeds max_len.
C16_State == seq_len <= max_len

\* C16, the step part: an append called with seq_len = max_len returns a
\* Tensor error ("KV cache full" when the layer index is in range) and leaves
\* keys, values and seq_len as they were.
C16_Step ==
    (kvop'.name = "append" /\ seq_len = max_len) =>
        /\ kvop'.result \in {"Tensor: KV cache full",
                              "Tensor: Layer index out of bounds"}
        /\ kvop'.layer < NumLayers => kvop'.result = "Tensor: KV cache full"
        /\ kv_keys' = kv_keys
        /\ kv_values' = kv_values
        /\ seq_len' = seq_len

\* C16: KVCache::append at seq_len = max_len fails with a Tensor error and
\* changes nothing, and seq_len <= max_len in every state reached through
\* append, reset and resize.
C16_AppendAtCapacityFails == [](C16_State) /\ [][C16_Step]_vars

\* C16 witness: appends filled the cache and the next append was refused.
C16_Witness ==
    /\ kvop.name = "append"
    /\ kvop.result = "Tensor: KV cache full"
    /\ seq_len = max_len
    /\ DOMAIN appended # {}

\* The positions at which layer l holds an appended entry.
PositionsOf(l) == {p \in 0..MaxLenBound : <<l, p>> \in DOMAIN appended}

\* C17 (as claimed): after a round in which append was called exactly once for
\* every layer, seq_len has advanced by exactly one and every layer holds
\* entries for exactly the positions 0 .. seq_len - 1.
C17_OneAdvancePerStep ==
    StepComplete =>
        /\ seq_len = step_base + 1
        /\ \A l \in Layers : PositionsOf(l) = 0..(seq_len - 1)

\* C18 (as claimed): for every layer l and position p < seq_len, get_keys and
\* get_values return exactly the vectors appended at (l, p), whatever was
\* appended afterwards; for p >= seq_len both return None.
C18_RoundTrip ==
    \A l \in Layers : \A p \in 0..MaxLenBound :
        IF p < seq_len
          THEN <<l, p>> \in DOMAIN appended =>
                  /\ get_keys(l, p) = appended[<<l, p>>].keys
                  /\ get_values(l, p) = appended[<<l, p>>].values
          ELSE get_keys(l, p) = "None" /\ get_values(l, p) = "None"

\* ---------------------------------- ModelPartition, InferenceEngine: claims

\* C19 (as claimed): a forward_batch call that returned yields one outcome per
\* request of the batch, in batch order: the output of request i where its
\* forward pass succeeds, a typed error for request i where it fails, the
\* other requests keeping their outputs; and the worker loop is still running.
C19_PerRequestOutcomes ==
    (fb.name = "forward_batch" /\ fb.result.kind # "panic") =>
        /\ worker_loop = "running"
        /\ fb.result.kind = "Ok"
        /\ Len(fb.result.outputs) = Len(fb.batch)
        /\ \A i \in 1..Len(fb.batch) :
              LET o == forward_request(fb.batch[i])
              IN  IF o.kind = "Ok" THEN fb.result.outputs[i] = o.output
                  ELSE fb.result.outputs[i] = o

\* The tensor names an accessor requires.
NamesOf(accessor) ==
    IF accessor = "get_attention_weights" THEN AttentionNames
    ELSE IF accessor = "get_mlp_weights" THEN MlpNames
    ELSE LayerNormNames

\* C20 (as claimed): an accessor called for layer l returns a bundle exactly
\* when l is in [start_layer, end_layer) and every tensor name the bundle
\* requires resolves in the tensor store, whatever the dtypes; the bundle then
\* has every field; otherwise the bundle is absent, and the call never panics.
C20_BundleIffResolved ==
    acc.name # "-" =>
        /\ acc.result.kind \in {"Some", "None"}
        /\ acc.result.kind = "Some" <=>
              /\ acc.layer >= start_layer
              /\ acc.layer < end_layer
              /\ \A i \in DOMAIN NamesOf(acc.name) :
                    Resolves(TensorName(acc.layer, NamesOf(acc.name)[i]))
        /\ acc.result.kind = "Some" =>
              acc.result.fields =
                  [i \in DOMAIN NamesOf(acc.name) |->
                      TensorName(acc.layer, NamesOf(acc.name)[i])]

\* ------------------------------------------------ SafeTensorBuffer: claims

\* An entry whose offsets, shape and dtype agree and whose payload lies in
\* the file.
Consistent(f, info) ==
    /\ info.dtype \in DTypes
    /\ info.data_offsets[1] <= info.data_offsets[2]
    /\ info.data_offsets[2] - info.data_offsets[1]
          = Product(info.shape) * size(info.dtype)
    /\ 8 + f.header_len + info.data_offsets[2] <= f.size

\* A container in the layout of the format: the length field holds the
\* length of the header text, the text is a JSON object mapping each name
\* directly to its entry, every entry is consistent.
InSpecifiedLayout(f) ==
    /\ f.size >= 8 + f.header_len
    /\ f.utf8
    /\ f.json = "direct"
    /\ \A n \in DOMAIN f.tensors : Consistent(f, f.tensors[n])

\* The view the format promises for a name of the file.
ViewOf(f, n) ==
    [kind |-> "Some",
     ptr |-> 8 + f.header_len + f.tensors[n].data_offsets[1],
     len |-> f.tensors[n].data_offsets[2] - f.tensors[n].data_offsets[1],
     shape |-> f.tensors[n].shape,
     dtype |-> f.tensors[n].dtype]

\* C21 (as claimed): on a container in the specified layout open succeeds,
\* get_tensor of a written name returns the view of file bytes
\* [8+H+lo, 8+H+hi) with the written shape and dtype, and get_tensor of an
\* unknown name returns absent.
C21_RoundTrip ==
    InSpecifiedLayout(file) =>
        /\ store.kind \in {"-", "Ok"}
        /\ view.name \in DOMAIN file.tensors =>
              view.result = ViewOf(file, view.name)
        /\ view.name = UnknownName => view.result.kind = "None"

\* C22 (as claimed): open returns an error and no store for a container with
\* an inconsistent entry (length against shape and dtype, payload past the
\* end of the file, lo > hi, unknown dtype tag), so that a store that opened
\* serves get_tensor for each of its names.
C22_OpenValidatesEntries ==
    /\ (\E n \in DOMAIN file.tensors : ~Consistent(file, file.tensors[n]))
          => store.kind \in {"-", "Err"}
    /\ store.kind = "Ok" =>
          \A n \in DOMAIN store.header : get_store_tensor(n).kind = "Some"

\* C30 (as claimed): on a file of at least 8 bytes open returns an error, or
\* goes on with 8 + H <= file_size true of the integers, whatever the value
\* H of the length field.
C30_HeaderLengthChecked ==
    (store.kind # "-" /\ file.size >= 8) =>
        \/ store.kind = "Err"
        \/ store.kind = "Ok" /\ 8 + file.header_len <= file.size

\* ----------------------------------------------- PriorityScheduler: claims

\* The class of a queue: 1 for high, 2 for normal, 3 for low.
Rank(q) ==
    IF q = "high_priority" THEN 1 ELSE IF q = "normal_priority" THEN 2 ELSE 3

\* The places <<batch, index>> at which request r was returned.
PrioSlots(r) ==
    {<<k, i>> \in (DOMAIN prio_batches) \X (1..MaxBatchSizeBound) :
        i \in DOMAIN prio_batches[k] /\ prio_batches[k][i] = r}

\* Request a was pushed before request b.
PushedBefore(a, b) ==
    \E i, j \in DOMAIN prio_pushed :
        i < j /\ prio_pushed[i] = a /\ prio_pushed[j] = b

\* In every batch returned the classes never rise in priority along the
\* batch, and two requests of one class leave in the order of their pushes.
C23_State ==
    /\ \A k \in DOMAIN prio_batches : \A i, j \in DOMAIN prio_batches[k] :
          i < j => Rank(prio_class[prio_batches[k][i]])
                     <= Rank(prio_class[prio_batches[k][j]])
    /\ \A a, b \in Requests :
          (prio_class[a] = prio_class[b] /\ PushedBefore(a, b)) =>
              \A sb \in PrioSlots(b) : \E sa \in PrioSlots(a) :
                  Earlier(sa, sb)

\* A batch is returned with a request of some class only when no request
\* that was in a queue of a higher class as the call began is still there.
C23_Step ==
    prio_batches' # prio_batches =>
        LET b == prio_batches'[Len(prio_batches')]
        IN  \A i \in DOMAIN b : \A q \in PriorityQueues :
                Rank(q) < Rank(prio_class[b[i]]) =>
                    \A k \in DOMAIN priority_queues'[q] :
                        priority_queues'[q][k] \notin prio_drain[q]

\* C23: PriorityScheduler::next_batch drains in priority order: inside a
\* batch no lower class precedes a higher one, each class keeps its FIFO
\* order, and a batch holds a normal (low) request only if no high (high or
\* normal) request queued when the drain started is left in its queue.
C23_PriorityOrder == [](C23_State) /\ [][C23_Step]_vars

\* A batch with a normal request was returned while a high request that came
\* after the drain started waits in its queue.
C23_Witness ==
    /\ \E k \in DOMAIN prio_batches : \E i \in DOMAIN prio_batches[k] :
          prio_class[prio_batches[k][i]] = "normal_priority"
    /\ priority_queues["high_priority"] # <<>>

\* C29 (as claimed): once shutdown() has returned, a next_batch call that
\* found the three queues empty and is at its wait returns Ok(None).
C29_ShutdownEndsWait ==
    (prio_sdpc = "done" /\ prio_cpc \in {"wait", "waiting"})
        ~> (prio_cpc = "idle" /\ prio_result = "None")

====
